---- MODULE Spec2Model ----
(***************************************************************************)
(* MEDSHOP: cart, checkout and order placement of the medicines app.       *)
(* State is the relational store (Medicine, Cart, CartItem, Order,         *)
(* OrderItem rows), the per-browser session store and the last HTTP        *)
(* response.  A request is made by a browser session; the session is       *)
(* logged in when it holds an '_auth_user_id'.  Every view of              *)
(* medicines/views.py that the properties are about is one action; the     *)
(* authenticated add_to_cart is also given step by step for the concurrent *)
(* specification.  Money is kept in paise (1/100 of a rupee), which is     *)
(* exact for DecimalField(decimal_places=2).                               *)
(***************************************************************************)
EXTENDS Integers, Sequences, FiniteSets, TLC

VARIABLES medicines, carts, cartItems, session, orders, orderItems, nextId,
          response, requests, served, addCalls,
          categories, siteSettings, feedbacks, form

\* the rows and objects of the back office beside the catalogue and the
\* orders: Category and SiteSettings and CustomerFeedback rows, and the
\* SocialSettingsForm object being validated
office == <<categories, siteSettings, feedbacks, form>>

\* the carts, orders and requests of the storefront
storefront == <<carts, cartItems, session, orders, orderItems, requests, addCalls>>

vars == <<medicines, carts, cartItems, session, orders, orderItems, nextId,
          response, requests, served, addCalls, office>>

-----------------------------------------------------------------------------
(* Bounds of the model *)

\* number of requests the server handles in one behaviour
MaxRequests == 5
\* largest quantity a POST to update_cart_item carries
MaxQty == 2
\* largest item id a request to update_cart_item or remove_from_cart names
MaxItemId == 2
\* largest order id a back-office request names
MaxOrderId == 1
\* the largest id of a Medicine that the medicine form creates
MaxMedicineId == 4

-----------------------------------------------------------------------------
(* Actors and request inputs *)

Users == {"asha"}
\* session keys of the browsers that send requests
Sessions == {"sk1"}

MedIds == {1, 2}
ItemIds == 1..MaxItemId
PostedQuantities == (-1)..MaxQty
Methods == {"GET", "POST"}
Phones == {"9810000001"}
Addresses == {"12 MG Road"}
CustomerNames == {"Ravi"}
CustomerEmails == {"ravi@example.com"}
NoUser == "None"
\* a GET carries no quantity field
NoQuantity == "None"
NoFile == "no file"

\* POST payloads of the admin medicine form
EditPayloads ==
    { [name |-> "Generic 500mg", category |-> 1, price |-> 5000, stock_quantity |-> 40,
       manufacturer |-> <<" ", "G", "S", "K">>, is_active |-> TRUE, file |-> "generic.jpg"],
      [name |-> "Generic 500mg", category |-> 2, price |-> 9000, stock_quantity |-> 0,
       manufacturer |-> <<" ">>, is_active |-> FALSE, file |-> NoFile] }

-----------------------------------------------------------------------------
(* Python values *)

\* str(int) and int(str) over the ids the URLs carry
PyStr(i) == ToString(i)
PyInt(s) == CHOOSE i \in MedIds \cup ItemIds : ToString(i) = s

TwoDigits(n) == IF n < 10 THEN "0" \o ToString(n) ELSE ToString(n)
\* str(Decimal) of a DecimalField(decimal_places=2) value held in paise
DecimalStr(p) == ToString(p \div 100) \o "." \o TwoDigits(p % 100)

\* Decimal(str) and float(str) over the amounts the catalogue and the forms take
KnownPrices == { 5000, 9000 }
DecimalOf(str) == CHOOSE p \in KnownPrices : DecimalStr(p) = str

\* a value that may be None: None is the empty tuple, any other value x the
\* tuple <<x>>
PyNone == << >>
Some(x) == <<x>>

\* a text whose characters matter (a form field that is stripped, matched or
\* rewritten) is the sequence of its characters
Whitespace == {" ", "\t", "\n", "\r", "\f"}

\* str.strip()
RECURSIVE LStrip(_)
LStrip(t) == IF t # << >> /\ Head(t) \in Whitespace THEN LStrip(Tail(t)) ELSE t
RECURSIVE RStrip(_)
RStrip(t) ==
    IF t # << >> /\ t[Len(t)] \in Whitespace THEN RStrip(SubSeq(t, 1, Len(t) - 1)) ELSE t
StripText(t) == RStrip(LStrip(t))

\* x or None, for a text x
OrNone(t) == IF t = << >> THEN PyNone ELSE Some(t)

\* a dict is the sequence of its (key, value) entries in insertion order
EmptyDict == << >>
DictKeys(d) == { d[i].k : i \in 1..Len(d) }
DictGet(d, key) == d[CHOOSE i \in 1..Len(d) : d[i].k = key].v
DictSet(d, key, val) ==
    IF key \in DictKeys(d)
    THEN [i \in 1..Len(d) |-> IF d[i].k = key THEN [k |-> key, v |-> val] ELSE d[i]]
    ELSE Append(d, [k |-> key, v |-> val])
DictDel(d, key) == SelectSeq(d, LAMBDA e : e.k # key)
DictGetDefault(d, key, default) == IF key \in DictKeys(d) THEN DictGet(d, key) ELSE default

RECURSIVE SeqSum(_)
SeqSum(s) == IF s = << >> THEN 0 ELSE Head(s) + SeqSum(Tail(s))

\* the rows of a set in primary-key order
RECURSIVE ByIdFrom(_, _)
ByIdFrom(rows, acc) ==
    IF rows = {} THEN acc
    ELSE LET r == CHOOSE x \in rows : \A y \in rows : x.id <= y.id
         IN ByIdFrom(rows \ {r}, Append(acc, r))
ById(rows) == ByIdFrom(rows, << >>)

-----------------------------------------------------------------------------
(* The store after the catalogue has been set up *)

InitialCategories ==
    (1 :> [name |-> "Pain Relief"]) @@ (2 :> [name |-> "Cough and Cold"])
    @@ (3 :> [name |-> "Vitamins"])

InitialMedicines ==
    (1 :> [name |-> "Paracetamol 500mg", category |-> 1, price |-> 9000,
           stock_quantity |-> 10, manufacturer |-> Some(<<"G", "S", "K">>),
           image |-> "", is_active |-> TRUE])
    @@ (2 :> [name |-> "Cough Syrup", category |-> 2, price |-> 5000,
              stock_quantity |-> 5, manufacturer |-> PyNone,
              image |-> "/media/medicines/cough.jpg", is_active |-> TRUE])

\* the SiteSettings row that the first rendered page creates (the context
\* processor calls get_settings), no feedback yet, no form object
CreatedSettings(pk) == [pk |-> pk, facebook_url |-> PyNone, whatsapp_number |-> PyNone]
NoForm == [state |-> "none"]

\* the next value of each table's AutoField sequence
FirstIds ==
    [CartItem |-> 1, Order |-> 1, OrderItem |-> 1, Medicine |-> 3, Category |-> 4,
     SiteSettings |-> 2, CustomerFeedback |-> 1]

InitOffice ==
    /\ categories = InitialCategories
    /\ siteSettings = { CreatedSettings(1) }
    /\ feedbacks = {}
    /\ form = NoForm

\* the worker threads that handle requests at the same time, and the locals
\* of the add_to_cart request a worker is in: its user and medicine and the
\* cart_item (primary key and quantity) its lookup returned
Slots == {1, 2}
Idle == [pc |-> "idle", session |-> NoUser, user |-> NoUser, medicine |-> 0,
         id |-> 0, quantity |-> 0]

\* the last response: the view, the session and method of its request, the
\* redirect or template it returned and the total it put in the context
NoResponse ==
    [op |-> "none", actor |-> NoUser, method |-> "GET", status |-> "none", total |-> 0]

Respond(op, actor, method, status, total) ==
    [op |-> op, actor |-> actor, method |-> method, status |-> status, total |-> total]

\* a browser is anonymous, or was logged in by login_view
AnonymousSession == EmptyDict
LoggedInSession(u) == <<[k |-> "_auth_user_id", v |-> u]>>

Init ==
    /\ medicines = InitialMedicines
    /\ carts = {}
    /\ cartItems = {}
    /\ session \in [Sessions -> {AnonymousSession} \cup {LoggedInSession(u) : u \in Users}]
    /\ orders = {}
    /\ orderItems = {}
    /\ nextId = FirstIds
    /\ response = NoResponse
    /\ requests = [r \in Slots |-> Idle]
    /\ served = 0
    /\ addCalls = [s \in Sessions |-> [m \in MedIds |-> 0]]
    /\ InitOffice

\* one more request is handled
Serve == served < MaxRequests /\ served' = served + 1

\* History of add_to_cart: addCalls[s][m] counts the add_to_cart requests for
\* medicine m that session s has had served one after another, starting from a
\* cart without a line for m, with no update_cart_item, remove_from_cart or
\* checkout request of s since (and m not deleted since).
CountAdd(s, m, had_line) ==
    addCalls' = [addCalls EXCEPT ![s][m] = IF @ = 0 /\ had_line THEN 0 ELSE @ + 1]
ForgetAdds(s) == addCalls' = [addCalls EXCEPT ![s] = [m \in MedIds |-> 0]]
ForgetMedicine(m) ==
    addCalls' = [s \in Sessions |-> [x \in MedIds |-> IF x = m THEN 0 ELSE addCalls[s][x]]]

-----------------------------------------------------------------------------
(* Queries *)

\* Medicine.objects.get(id=...) succeeds
MedicineExists(m) == m \in DOMAIN medicines
\* get_object_or_404(Medicine, id=medicine_id, is_active=True) succeeds
ActiveMedicine(m) == MedicineExists(m) /\ medicines[m].is_active

\* cart.items.all() of the Cart of user u
ItemsOf(items, u) == { ci \in items : ci.cart = u }
\* CartItem.objects.get(cart=cart, medicine=medicine) of get_or_create
LookupItem(items, u, m) == { ci \in items : ci.cart = u /\ ci.medicine = m }
\* variant: the item is looked up by its id alone
ItemOfAnyCart(items, u, id) == { ci \in items : ci.id = id }

\* get_object_or_404(CartItem, id=item_id, cart__user=request.user)
OwnItem(items, u, id) == { ci \in items : ci.id = id /\ ci.cart = u }

\* request.user.is_authenticated and request.user of the request of session s
IsAuthenticated(s) == "_auth_user_id" \in DictKeys(session[s])
RequestUser(s) == DictGet(session[s], "_auth_user_id")

\* request.session.get('cart', {})
SessionCart(s) == DictGetDefault(session[s], "cart", EmptyDict)

-----------------------------------------------------------------------------
(* add_to_cart *)

\* the row CartItem.objects.get_or_create inserts: defaults={'quantity': 1}
CreatedItem(id, u, m) == [id |-> id, cart |-> u, medicine |-> m, quantity |-> 1]
\* variant: the quantity goes up by two
IncrementedByTwo(read, stored) == read + 2

\* variant: the increment is made in the database (an F() expression)
IncrementedInStore(read, stored) == stored + 1

\* cart_item.quantity += 1 on the instance the lookup returned: the value
\* written is the value read plus one, whatever the row holds by now
Incremented(read, stored) == read + 1
\* Model.save(): UPDATE the row with this primary key, INSERT it when none is left
SaveItem(items, ci) == { x \in items : x.id # ci.id } \cup {ci}

\* the session line of a medicine added for the first time
GuestLine(m) ==
    [quantity |-> 1, name |-> medicines[m].name,
     price |-> DecimalStr(medicines[m].price), image |-> medicines[m].image]
\* cart[medicine_id_str]['quantity'] += 1
GuestIncremented(line) == [line EXCEPT !.quantity = @ + 1]
\* variant: a repeated add takes the snapshot again
GuestAddRefreshing(cart, m) ==
    IF PyStr(m) \in DictKeys(cart)
    THEN DictSet(cart, PyStr(m),
                 [GuestLine(m) EXCEPT !.quantity = DictGet(cart, PyStr(m)).quantity + 1])
    ELSE DictSet(cart, PyStr(m), GuestLine(m))

\* the guest branch of add_to_cart on the session cart
GuestAdd(cart, m) ==
    IF PyStr(m) \in DictKeys(cart)
    THEN DictSet(cart, PyStr(m), GuestIncremented(DictGet(cart, PyStr(m))))
    ELSE DictSet(cart, PyStr(m), GuestLine(m))

AddToCartUser(s, m) ==
    LET u == RequestUser(s)
        found == LookupItem(cartItems, u, m) IN
    /\ carts' = carts \cup {u}
    /\ IF found = {}
       THEN /\ cartItems' = cartItems \cup {CreatedItem(nextId.CartItem, u, m)}
            /\ nextId' = [nextId EXCEPT !.CartItem = @ + 1]
            /\ response' = Respond("add_to_cart", s, "GET", "redirect:cart_detail", 0)
       ELSE IF Cardinality(found) = 1
       THEN LET ci == CHOOSE x \in found : TRUE IN
            /\ cartItems' = SaveItem(cartItems,
                                     [ci EXCEPT !.quantity = Incremented(@, ci.quantity)])
            /\ UNCHANGED nextId
            /\ response' = Respond("add_to_cart", s, "GET", "redirect:cart_detail", 0)
       ELSE \* MultipleObjectsReturned
            /\ UNCHANGED <<cartItems, nextId>>
            /\ response' = Respond("add_to_cart", s, "GET", "500", 0)
    /\ UNCHANGED session

AddToCartGuest(s, m) ==
    LET cart == SessionCart(s) IN
    /\ session' = [session EXCEPT ![s] = DictSet(@, "cart", GuestAdd(cart, m))]
    /\ response' = Respond("add_to_cart", s, "GET", "redirect:cart_detail", 0)
    /\ UNCHANGED <<carts, cartItems, nextId>>

AddToCart(s, m) ==
    /\ IF ~ActiveMedicine(m)
       THEN /\ response' = Respond("add_to_cart", s, "GET", "404", 0)
            /\ UNCHANGED <<carts, cartItems, session, nextId>>
       ELSE IF IsAuthenticated(s) THEN AddToCartUser(s, m) ELSE AddToCartGuest(s, m)
    /\ IF response'.status = "redirect:cart_detail"
       THEN CountAdd(s, m, IF IsAuthenticated(s)
                           THEN LookupItem(cartItems, RequestUser(s), m) # {}
                           ELSE PyStr(m) \in DictKeys(SessionCart(s)))
       ELSE UNCHANGED addCalls
    /\ Serve
    /\ UNCHANGED <<medicines, orders, orderItems, requests, office>>

-----------------------------------------------------------------------------
(* Cart lines and totals *)

\* the line a CartItem row stands for; CartItem.get_total_price reads
\* self.medicine.price
UserLine(ci) ==
    [medicine |-> ci.medicine, quantity |-> ci.quantity,
     price |-> medicines[ci.medicine].price]
\* cart.items.all() of the user's Cart, or nothing when Cart.DoesNotExist
UserLines(u) ==
    IF u \in carts
    THEN LET rows == ById(ItemsOf(cartItems, u))
         IN [i \in 1..Len(rows) |-> UserLine(rows[i])]
    ELSE << >>

\* variant: the unit price is the price string kept in the session line
GuestUnitPriceSnapshot(m, line) == DecimalOf(line.price)

\* the unit price the guest branch multiplies by: medicine.price of the
\* Medicine fetched by id
GuestUnitPrice(m, line) == medicines[m].price
\* the entry cart_detail and checkout append for one session line
GuestLineOf(e) ==
    [medicine |-> PyInt(e.k), quantity |-> e.v.quantity,
     price |-> GuestUnitPrice(PyInt(e.k), e.v)]
\* variant: the loop ends at the first session line whose medicine is gone
GuestLinesUntilMissing(cart) ==
    LET stale == { i \in 1..Len(cart) : ~MedicineExists(PyInt(cart[i].k)) }
        n == IF stale = {} THEN Len(cart)
             ELSE (CHOOSE i \in stale : \A j \in stale : i <= j) - 1
    IN [i \in 1..n |-> GuestLineOf(cart[i])]

\* the session lines whose Medicine.objects.get does not raise DoesNotExist
GuestLines(cart) ==
    LET kept == SelectSeq(cart, LAMBDA e : MedicineExists(PyInt(e.k)))
    IN [i \in 1..Len(kept) |-> GuestLineOf(kept[i])]

\* cart_items as resolved at the top of cart_detail and checkout
ResolvedLines(s) ==
    IF IsAuthenticated(s) THEN UserLines(RequestUser(s)) ELSE GuestLines(SessionCart(s))

\* sum(item.get_total_price() ...) and total += medicine.price * item['quantity']
LinesTotal(lines) == SeqSum([i \in 1..Len(lines) |-> lines[i].quantity * lines[i].price])

-----------------------------------------------------------------------------
(* cart_detail *)

CartDetail(s) ==
    /\ response' = Respond("cart_detail", s, "GET", "render:cart_detail",
                           LinesTotal(ResolvedLines(s)))
    /\ Serve
    /\ UNCHANGED addCalls
    /\ UNCHANGED <<medicines, carts, cartItems, session, orders, orderItems, nextId, requests, office>>

-----------------------------------------------------------------------------
(* update_cart_item and remove_from_cart *)

\* variant: a quantity of 0 is written instead of deleting the row
UpdatedItemsNoDelete(items, ci, quantity) ==
    IF quantity >= 0
    THEN SaveItem(items, [ci EXCEPT !.quantity = quantity])
    ELSE items \ {ci}

\* the authenticated branch of update_cart_item on the CartItem table
UpdatedItems(items, ci, quantity) ==
    IF quantity > 0
    THEN SaveItem(items, [ci EXCEPT !.quantity = quantity])
    ELSE items \ {ci}

\* variant: the posted quantity is written whatever its sign
GuestUpdateAnyQuantity(cart, key, quantity) ==
    DictSet(cart, key, [DictGet(cart, key) EXCEPT !.quantity = quantity])

\* the guest branch of update_cart_item on the session cart
GuestUpdate(cart, key, quantity) ==
    IF quantity > 0
    THEN DictSet(cart, key, [DictGet(cart, key) EXCEPT !.quantity = quantity])
    ELSE DictDel(cart, key)

UpdateCartItem(s, method, item_id, quantity) ==
    /\ IF method # "POST"
       THEN /\ response' = Respond("update_cart_item", s, method, "redirect:cart_detail", 0)
            /\ UNCHANGED <<cartItems, session>>
       ELSE IF IsAuthenticated(s)
       THEN LET own == OwnItem(cartItems, RequestUser(s), item_id) IN
            IF own = {}
            THEN /\ response' = Respond("update_cart_item", s, method, "404", 0)
                 /\ UNCHANGED <<cartItems, session>>
            ELSE /\ cartItems' = UpdatedItems(cartItems, CHOOSE ci \in own : TRUE, quantity)
                 /\ response' = Respond("update_cart_item", s, method, "redirect:cart_detail", 0)
                 /\ UNCHANGED session
       ELSE LET cart == SessionCart(s) IN
            /\ IF PyStr(item_id) \in DictKeys(cart)
               THEN session' = [session EXCEPT ![s] =
                                   DictSet(@, "cart", GuestUpdate(cart, PyStr(item_id), quantity))]
               ELSE UNCHANGED session
            /\ response' = Respond("update_cart_item", s, method, "redirect:cart_detail", 0)
            /\ UNCHANGED cartItems
    /\ Serve
    /\ ForgetAdds(s)
    /\ UNCHANGED <<medicines, carts, orders, orderItems, nextId, requests, office>>

\* variant: a line of several units loses one unit instead of going away
DeletedItemOneUnit(items, ci) ==
    IF ci.quantity > 1
    THEN SaveItem(items, [ci EXCEPT !.quantity = @ - 1])
    ELSE items \ {ci}

\* cart_item.delete()
DeletedItem(items, ci) == items \ {ci}
\* del cart[item_id_str]
GuestRemove(cart, key) == DictDel(cart, key)

RemoveFromCart(s, item_id) ==
    /\ IF IsAuthenticated(s)
       THEN LET own == OwnItem(cartItems, RequestUser(s), item_id) IN
            IF own = {}
            THEN /\ response' = Respond("remove_from_cart", s, "GET", "404", 0)
                 /\ UNCHANGED <<cartItems, session>>
            ELSE /\ cartItems' = DeletedItem(cartItems, CHOOSE ci \in own : TRUE)
                 /\ response' = Respond("remove_from_cart", s, "GET", "redirect:cart_detail", 0)
                 /\ UNCHANGED session
       ELSE LET cart == SessionCart(s) IN
            /\ IF PyStr(item_id) \in DictKeys(cart)
               THEN session' = [session EXCEPT ![s] =
                                   DictSet(@, "cart", GuestRemove(cart, PyStr(item_id)))]
               ELSE UNCHANGED session
            /\ response' = Respond("remove_from_cart", s, "GET", "redirect:cart_detail", 0)
            /\ UNCHANGED cartItems
    /\ Serve
    /\ ForgetAdds(s)
    /\ UNCHANGED <<medicines, carts, orders, orderItems, nextId, requests, office>>

-----------------------------------------------------------------------------
(* checkout *)

\* variant: the order is created as already confirmed
CreatedOrderConfirmed(id, user, total, address, phone) ==
    [id |-> id, user |-> user, total_amount |-> total, status |-> "CONFIRMED",
     shipping_address |-> address, phone_number |-> phone, created_at |-> id]

\* Order.objects.create(...): status takes the field default, created_at the
\* time of the insert; rows are inserted in the order of their ids, so the id
\* stands for that time
CreatedOrder(id, user, total, address, phone) ==
    [id |-> id, user |-> user, total_amount |-> total, status |-> "PENDING",
     shipping_address |-> address, phone_number |-> phone, created_at |-> id]

\* the shipping_address of a guest order
GuestAddress(name, email, address) == name \o "\n" \o email \o "\n" \o address

\* variant: every OrderItem is written with quantity 1
OrderItemsOfUnit(order_id, first_id, lines) ==
    { [id |-> first_id + i - 1, order |-> order_id, medicine |-> lines[i].medicine,
       quantity |-> 1, price |-> medicines[lines[i].medicine].price]
      : i \in 1..Len(lines) }

\* the OrderItem.objects.create(...) of the loop over the cart lines: each row
\* takes the line's medicine and quantity and the price of the Medicine
OrderItemsOf(order_id, first_id, lines) ==
    { [id |-> first_id + i - 1, order |-> order_id, medicine |-> lines[i].medicine,
       quantity |-> lines[i].quantity, price |-> medicines[lines[i].medicine].price]
      : i \in 1..Len(lines) }

\* variant: the CartItem rows are left in place
ClearedItemsKept(items, u) == items

\* cart.items.all().delete()
ClearedItems(items, u) == items \ ItemsOf(items, u)
\* request.session['cart'] = {}
ClearedSession(sess) == DictSet(sess, "cart", EmptyDict)

\* variant: the prices are summed without the quantities
OrderTotalOfPrices(lines) == SeqSum([i \in 1..Len(lines) |-> lines[i].price])

\* the amount handed to Order.objects.create
OrderTotal(lines) == LinesTotal(lines)

\* variant: placing the order takes the ordered quantities out of the stock
StockAfterOrderReduced(meds, lines) ==
    [m \in DOMAIN meds |->
       [meds[m] EXCEPT !.stock_quantity =
          @ - SeqSum([i \in 1..Len(lines) |->
                        IF lines[i].medicine = m THEN lines[i].quantity ELSE 0])]]

\* the Medicine rows after the order is placed: checkout reads medicine.price
\* and writes no Medicine
StockAfterOrder(meds, lines) == meds

\* variant: the empty-cart test is missing
CartIsEmptyNever(cart_items) == FALSE

\* if not cart_items
CartIsEmpty(cart_items) == cart_items = << >>

Checkout(s, method, shipping_address, phone_number, customer_name, customer_email) ==
    LET cart_items == ResolvedLines(s)
        total == OrderTotal(cart_items)
    IN
    /\ IF CartIsEmpty(cart_items)
       THEN /\ response' = Respond("checkout", s, method, "redirect:cart_detail", 0)
            /\ UNCHANGED <<cartItems, session, orders, orderItems, nextId>>
       ELSE IF method = "POST"
       THEN /\ IF IsAuthenticated(s)
               THEN /\ orders' = orders \cup
                          {CreatedOrder(nextId.Order, RequestUser(s), total,
                                        shipping_address, phone_number)}
                    /\ orderItems' = orderItems \cup
                          OrderItemsOf(nextId.Order, nextId.OrderItem,
                                       UserLines(RequestUser(s)))
                    /\ cartItems' = ClearedItems(cartItems, RequestUser(s))
                    /\ UNCHANGED session
               ELSE /\ orders' = orders \cup
                          {CreatedOrder(nextId.Order, NoUser, total,
                                        GuestAddress(customer_name, customer_email,
                                                     shipping_address),
                                        phone_number)}
                    /\ orderItems' = orderItems \cup
                          OrderItemsOf(nextId.Order, nextId.OrderItem,
                                       GuestLines(SessionCart(s)))
                    /\ session' = [session EXCEPT ![s] = ClearedSession(@)]
                    /\ UNCHANGED cartItems
            /\ nextId' = [nextId EXCEPT !.Order = @ + 1,
                                        !.OrderItem = @ + Len(cart_items)]
            /\ response' = Respond("checkout", s, method, "redirect:order_success", 0)
       ELSE /\ response' = Respond("checkout", s, method, "render:checkout", total)
            /\ UNCHANGED <<cartItems, session, orders, orderItems, nextId>>
    /\ medicines' = IF ~CartIsEmpty(cart_items) /\ method = "POST"
                    THEN StockAfterOrder(medicines, cart_items)
                    ELSE medicines
    /\ Serve
    /\ ForgetAdds(s)
    /\ UNCHANGED <<carts, requests, office>>

-----------------------------------------------------------------------------
(* add_to_cart of a logged-in user, statement by statement, for requests   *)
(* that run at the same time: the lookup of get_or_create, its insert, and *)
(* the save of the incremented instance are separate queries               *)

\* the quantity the row with this primary key holds now (0 when it is gone)
StoredQuantity(items, id) ==
    IF \E x \in items : x.id = id
    THEN (CHOOSE x \in items : x.id = id).quantity
    ELSE 0

\* lines 61-70: the medicine, the Cart, and the SELECT of get_or_create
AddBegin(r, s, m) ==
    LET u == RequestUser(s)
        found == LookupItem(cartItems, u, m)
        mine == [Idle EXCEPT !.session = s, !.user = u, !.medicine = m]
    IN
    /\ requests[r].pc = "idle"
    /\ IsAuthenticated(s)
    /\ Serve
    /\ IF ~ActiveMedicine(m)
       THEN /\ requests' = [requests EXCEPT ![r] = [mine EXCEPT !.pc = "404"]]
            /\ UNCHANGED carts
       ELSE /\ carts' = carts \cup {u}
            /\ requests' = [requests EXCEPT ![r] =
                  IF found = {} THEN [mine EXCEPT !.pc = "missing"]
                  ELSE IF Cardinality(found) = 1
                  THEN LET ci == CHOOSE x \in found : TRUE
                       IN [mine EXCEPT !.pc = "found", !.id = ci.id,
                                       !.quantity = ci.quantity]
                  ELSE [mine EXCEPT !.pc = "500"]]
    /\ UNCHANGED <<medicines, cartItems, session, orders, orderItems, nextId, response,
                   addCalls, office>>

\* lines 66-70: the INSERT of get_or_create after a lookup that found no row
AddInsert(r) ==
    LET q == requests[r] IN
    /\ q.pc = "missing"
    /\ cartItems' = cartItems \cup {CreatedItem(nextId.CartItem, q.user, q.medicine)}
    /\ nextId' = [nextId EXCEPT !.CartItem = @ + 1]
    /\ requests' = [requests EXCEPT ![r] = [q EXCEPT !.pc = "created", !.id = nextId.CartItem]]
    /\ UNCHANGED <<medicines, carts, session, orders, orderItems, response, served,
                   addCalls, office>>

\* lines 71-73: the increment of the instance and its save
AddSave(r) ==
    LET q == requests[r] IN
    /\ q.pc = "found"
    /\ cartItems' = SaveItem(cartItems,
                             [id |-> q.id, cart |-> q.user, medicine |-> q.medicine,
                              quantity |-> Incremented(q.quantity,
                                                       StoredQuantity(cartItems, q.id))])
    /\ requests' = [requests EXCEPT ![r] = [q EXCEPT !.pc = "saved"]]
    /\ UNCHANGED <<medicines, carts, session, orders, orderItems, nextId, response,
                   served, addCalls, office>>

\* lines 90-91: the redirect, or the error page
AddRespond(r) ==
    LET q == requests[r] IN
    /\ q.pc \in {"created", "saved", "404", "500"}
    /\ response' = Respond("add_to_cart", q.session, "GET",
                           IF q.pc \in {"404", "500"} THEN q.pc ELSE "redirect:cart_detail", 0)
    /\ requests' = [requests EXCEPT ![r] = Idle]
    /\ UNCHANGED <<medicines, carts, cartItems, session, orders, orderItems, nextId,
                   served, addCalls, office>>

-----------------------------------------------------------------------------
(* checkout, statement by statement: the queries that resolve the cart, the *)
(* insert of the Order, the inserts of the OrderItems and the clearing of   *)
(* the cart are separate statements, none inside a transaction, and the     *)
(* request can end between any two of them (an error of the database, the  *)
(* worker killed at its timeout)                                            *)

\* the locals of a checkout request: quantity counts the OrderItems written,
\* lines are the cart lines the loop has still to copy
CheckoutLocals(s, method, pc, total, cart, address, phone) ==
    [pc |-> pc, session |-> s,
     user |-> IF IsAuthenticated(s) THEN RequestUser(s) ELSE NoUser,
     method |-> method, id |-> 0, quantity |-> 0, lines |-> cart, total |-> total,
     shipping_address |-> address, phone_number |-> phone]

\* lines 173-206: cart_items and total are resolved, the empty-cart test and
\* the method test are made and the form is read
CheckoutBegin(r, s, method, shipping_address, phone_number, customer_name, customer_email) ==
    LET cart_items == ResolvedLines(s)
        total == OrderTotal(cart_items)
        address == IF IsAuthenticated(s) THEN shipping_address
                   ELSE GuestAddress(customer_name, customer_email, shipping_address)
        pc == IF CartIsEmpty(cart_items) THEN "empty"
              ELSE IF method = "POST" THEN "resolved" ELSE "render"
    IN
    /\ requests[r].pc = "idle"
    /\ requests' = [requests EXCEPT ![r] =
          CheckoutLocals(s, method, pc, total, SessionCart(s), address, phone_number)]
    /\ Serve
    /\ ForgetAdds(s)
    /\ UNCHANGED <<medicines, carts, cartItems, session, orders, orderItems, nextId,
                   response, office>>

\* lines 210-219 and 230-239: Order.objects.create, then the query of the loop
\* (cart.items.all() of the user, the session cart of the guest)
CheckoutCreateOrder(r) ==
    LET q == requests[r] IN
    /\ q.pc = "resolved"
    /\ orders' = orders \cup {CreatedOrder(nextId.Order, q.user, q.total,
                                            q.shipping_address, q.phone_number)}
    /\ nextId' = [nextId EXCEPT !.Order = @ + 1]
    /\ requests' = [requests EXCEPT ![r] =
          [q EXCEPT !.pc = "looping", !.id = nextId.Order,
                    !.lines = IF q.user # NoUser
                              THEN ById(ItemsOf(cartItems, q.user))
                              ELSE q.lines]]
    /\ UNCHANGED <<medicines, carts, cartItems, session, orderItems, response, served,
                   addCalls, office>>

\* lines 220-225 and 240-249: one pass of the loop; the price is read from
\* the Medicine now.  A medicine that is gone is skipped for a guest and
\* raises for a user.
CheckoutItem(r) ==
    LET q == requests[r]
        e == Head(q.lines)
        m == IF q.user # NoUser THEN e.medicine ELSE PyInt(e.k)
        quantity == IF q.user # NoUser THEN e.quantity ELSE e.v.quantity
    IN
    /\ q.pc = "looping" /\ q.lines # << >>
    /\ IF MedicineExists(m)
       THEN /\ orderItems' = orderItems \cup
                  {[id |-> nextId.OrderItem, order |-> q.id, medicine |-> m,
                    quantity |-> quantity, price |-> medicines[m].price]}
            /\ nextId' = [nextId EXCEPT !.OrderItem = @ + 1]
            /\ requests' = [requests EXCEPT ![r] =
                  [q EXCEPT !.lines = Tail(@), !.quantity = @ + 1]]
       ELSE /\ UNCHANGED <<orderItems, nextId>>
            /\ requests' = [requests EXCEPT ![r] =
                  IF q.user # NoUser THEN [q EXCEPT !.pc = "failed"]
                  ELSE [q EXCEPT !.lines = Tail(@)]]
    /\ UNCHANGED <<medicines, carts, cartItems, session, orders, response, served,
                   addCalls, office>>

\* lines 227 and 252: the cart is cleared after the loop
CheckoutClear(r) ==
    LET q == requests[r] IN
    /\ q.pc = "looping" /\ q.lines = << >>
    /\ IF q.user # NoUser
       THEN cartItems' = ClearedItems(cartItems, q.user) /\ UNCHANGED session
       ELSE /\ session' = [session EXCEPT ![q.session] = ClearedSession(@)]
            /\ UNCHANGED cartItems
    /\ requests' = [requests EXCEPT ![r] = [q EXCEPT !.pc = "cleared"]]
    /\ UNCHANGED <<medicines, carts, orders, orderItems, nextId, response, served,
                   addCalls, office>>

\* variant: the view runs in a transaction, and the Order of a failed request
\* is rolled back
OrdersAfterFailureRolledBack(rows, order_id) == { o \in rows : o.id # order_id }

\* the Order rows after the request failed: checkout opens no transaction and
\* catches nothing, every statement before the failure is committed
OrdersAfterFailure(rows, order_id) == rows

\* the request ends after the Order was created and before the cart is cleared
CheckoutFail(r) ==
    LET q == requests[r] IN
    /\ q.pc = "looping"
    /\ orders' = OrdersAfterFailure(orders, q.id)
    /\ orderItems' = { oi \in orderItems : \E o \in orders' : oi.order = o.id }
    /\ requests' = [requests EXCEPT ![r] = [q EXCEPT !.pc = "failed"]]
    /\ UNCHANGED <<medicines, carts, cartItems, session, nextId, response, served,
                   addCalls, office>>

\* lines 200, 256, 258-262: the redirect or the page, or the error page
CheckoutRespond(r) ==
    LET q == requests[r] IN
    /\ q.pc \in {"empty", "render", "cleared", "failed"}
    /\ response' = Respond("checkout", q.session, q.method,
                           CASE q.pc = "empty" -> "redirect:cart_detail"
                             [] q.pc = "render" -> "render:checkout"
                             [] q.pc = "cleared" -> "redirect:order_success"
                             [] q.pc = "failed" -> "500",
                           IF q.pc = "render" THEN q.total ELSE 0)
    /\ requests' = [requests EXCEPT ![r] = Idle]
    /\ UNCHANGED <<medicines, carts, cartItems, session, orders, orderItems, nextId,
                   served, addCalls, office>>

-----------------------------------------------------------------------------
(* Back office: the medicine form and medicine deletion *)

\* admin_medicine_edit, POST for an existing medicine
AdminMedicineEdit(m, p) ==
    /\ MedicineExists(m)
    /\ IF p.category \in DOMAIN categories
       THEN /\ medicines' = [medicines EXCEPT ![m] =
                   [name |-> p.name, category |-> p.category, price |-> p.price,
                    stock_quantity |-> p.stock_quantity,
                    manufacturer |-> OrNone(StripText(p.manufacturer)),
                    image |-> IF p.file # NoFile
                              THEN "/media/medicines/" \o p.file ELSE @.image,
                    is_active |-> p.is_active]]
            /\ response' = Respond("admin_medicine_edit", "staff", "POST",
                                   "redirect:admin_medicines", 0)
       ELSE \* the save violates the foreign key: the except branch
            /\ response' = Respond("admin_medicine_edit", "staff", "POST",
                                   "render:medicine_form", 0)
            /\ UNCHANGED medicines
    /\ Serve
    /\ UNCHANGED addCalls
    /\ UNCHANGED <<carts, cartItems, session, orders, orderItems, nextId, requests, office>>

\* admin_medicine_delete, POST: the CartItem and OrderItem rows go with it
AdminMedicineDelete(m) ==
    /\ MedicineExists(m)
    /\ medicines' = [x \in DOMAIN medicines \ {m} |-> medicines[x]]
    /\ cartItems' = { ci \in cartItems : ci.medicine # m }
    /\ orderItems' = { oi \in orderItems : oi.medicine # m }
    /\ response' = Respond("admin_medicine_delete", "staff", "POST", "redirect:admin_medicines", 0)
    /\ Serve
    /\ ForgetMedicine(m)
    /\ UNCHANGED <<carts, session, orders, nextId, requests, office>>

-----------------------------------------------------------------------------
(* track_order *)

\* what the form of track_order posts in its two fields
TrackOrderIds == {"", "1", " 2", "abc"}
TrackPhones == {"", "9810000001", " 9810000002 "}

\* str.strip() over the posted values
Stripped == (" 2" :> "2") @@ (" 9810000002 " :> "9810000002")
Strip(str) == IF str \in DOMAIN Stripped THEN Stripped[str] ELSE str

\* int(order_id) succeeds, and its value; anything else raises ValueError
IntValues == 0..(MaxRequests + 1)
IsIntStr(str) == \E i \in IntValues : ToString(i) = str
IntOf(str) == CHOOSE i \in IntValues : ToString(i) = str

\* .order_by('-created_at')
RECURSIVE NewestFirstFrom(_, _)
NewestFirstFrom(rows, acc) ==
    IF rows = {} THEN acc
    ELSE LET r == CHOOSE x \in rows : \A y \in rows : x.created_at >= y.created_at
         IN NewestFirstFrom(rows \ {r}, Append(acc, r))
\* variant: the orders come oldest first
RECURSIVE OldestFirstFrom(_, _)
OldestFirstFrom(rows, acc) ==
    IF rows = {} THEN acc
    ELSE LET r == CHOOSE x \in rows : \A y \in rows : x.created_at <= y.created_at
         IN OldestFirstFrom(rows \ {r}, Append(acc, r))
OldestFirst(rows) == OldestFirstFrom(rows, << >>)

NewestFirst(rows) == NewestFirstFrom(rows, << >>)

\* Order.objects.filter(phone_number=phone_number)
OrdersByPhone(rows, phone_number) == { o \in rows : o.phone_number = phone_number }
\* variant: the order is looked up by its id alone
OrderByIdOnly(rows, order_id, phone_number) ==
    IF IsIntStr(order_id) THEN { o \in rows : o.id = IntOf(order_id) } ELSE {}

\* Order.objects.get(id=int(order_id), phone_number=phone_number)
OrderByIdAndPhone(rows, order_id, phone_number) ==
    IF IsIntStr(order_id)
    THEN { o \in rows : o.id = IntOf(order_id) /\ o.phone_number = phone_number }
    ELSE {}

\* the context track_order renders
TrackContext(s, method, found_orders, found_order, error, search_type) ==
    [op |-> "track_order", actor |-> s, method |-> method,
     status |-> "render:track_order", total |-> 0,
     orders |-> found_orders, order |-> found_order, error |-> error,
     search_type |-> search_type]

TrackOrder(s, method, posted_order_id, posted_phone_number) ==
    LET order_id == Strip(posted_order_id)
        phone_number == Strip(posted_phone_number)
    IN
    /\ response' =
         IF method # "POST"
         THEN TrackContext(s, method, PyNone, PyNone, PyNone, PyNone)
         ELSE IF phone_number # "" /\ order_id = ""
         THEN LET found == NewestFirst(OrdersByPhone(orders, phone_number))
              IN TrackContext(s, method, Some(found), PyNone,
                              IF found = << >>
                              THEN Some("No orders found with this phone number.")
                              ELSE PyNone,
                              Some("phone"))
         ELSE IF order_id # "" /\ phone_number # ""
         THEN LET found == OrderByIdAndPhone(orders, order_id, phone_number)
              IN IF found # {}
                 THEN TrackContext(s, method, PyNone, Some(CHOOSE o \in found : TRUE),
                                   PyNone, Some("specific"))
                 ELSE TrackContext(s, method, PyNone, PyNone,
                        Some("Order not found. Please check your Order ID and Phone Number."),
                        PyNone)
         ELSE IF order_id # ""
         THEN TrackContext(s, method, PyNone, PyNone,
                Some("Please enter your phone number to track the order."), PyNone)
         ELSE TrackContext(s, method, PyNone, PyNone,
                Some("Please enter your phone number to track orders."), PyNone)
    /\ Serve
    /\ UNCHANGED <<medicines, carts, cartItems, session, orders, orderItems, nextId,
                   requests, addCalls, office>>

-----------------------------------------------------------------------------
(* order_detail and order_history: @login_required pages of a customer *)

\* get_object_or_404(Order, id=order_id, user=request.user)
OwnOrder(rows, u, order_id) == { o \in rows : o.id = order_id /\ o.user = u }

OrderDetail(s, order_id) ==
    /\ response' =
         IF ~IsAuthenticated(s)
         THEN Respond("order_detail", s, "GET", "redirect:login", 0)
         ELSE IF OwnOrder(orders, RequestUser(s), order_id) = {}
         THEN Respond("order_detail", s, "GET", "404", 0)
         ELSE Respond("order_detail", s, "GET", "render:order_detail", 0)
    /\ Serve
    /\ UNCHANGED <<medicines, carts, cartItems, session, orders, orderItems, nextId,
                   requests, addCalls, office>>

OrderHistory(s) ==
    /\ response' =
         IF ~IsAuthenticated(s)
         THEN Respond("order_history", s, "GET", "redirect:login", 0)
         ELSE Respond("order_history", s, "GET", "render:order_history", 0)
    /\ Serve
    /\ UNCHANGED <<medicines, carts, cartItems, session, orders, orderItems, nextId,
                   requests, addCalls, office>>

-----------------------------------------------------------------------------
(* Back office: orders *)

\* Order.STATUS_CHOICES
StatusChoices == {"PENDING", "CONFIRMED", "SHIPPED", "DELIVERED", "CANCELLED"}

\* the order ids the back-office URLs carry, and the status strings posted
OrderIds == 1..MaxOrderId
PostedStatuses == {"DELIVERED", "RETURNED"}

\* POST payloads of the admin order form: a complete order, an order with a
\* status outside the choices, an order whose only item row is left
\* incomplete, and a form with the customer left out
OrderPayloads ==
    { [user |-> "asha", status |-> "SHIPPED", phone_number |-> "9810000002",
       total_amount |-> "50.00", shipping_address |-> "7 Park St",
       items |-> <<[medicine |-> "2", quantity |-> "1", price |-> "50.00"]>>],
      [user |-> "asha", status |-> "RETURNED", phone_number |-> "9810000001",
       total_amount |-> "90.00", shipping_address |-> "12 MG Road",
       items |-> <<[medicine |-> "1", quantity |-> "1", price |-> "90.00"]>>],
      [user |-> "asha", status |-> "CONFIRMED", phone_number |-> "9810000001",
       total_amount |-> "90.00", shipping_address |-> "12 MG Road",
       items |-> <<[medicine |-> "1", quantity |-> "", price |-> "90.00"]>>],
      [user |-> "", status |-> "PENDING", phone_number |-> "9810000001",
       total_amount |-> "90.00", shipping_address |-> "12 MG Road",
       items |-> <<[medicine |-> "1", quantity |-> "1", price |-> "90.00"]>>] }

\* a GET carries no form
NoStatus == ""
NoPayload ==
    [user |-> "", status |-> "", phone_number |-> "", total_amount |-> "",
     shipping_address |-> "", items |-> << >>]

\* all([user_id, status, phone_number, total_amount, shipping_address])
AllFields(p) ==
    /\ p.user # "" /\ p.status # "" /\ p.phone_number # ""
    /\ p.total_amount # "" /\ p.shipping_address # ""

\* if medicine_id and quantity and price
CompleteItem(it) == it.medicine # "" /\ it.quantity # "" /\ it.price # ""

\* the loop over the posted item rows: an OrderItem for every complete row,
\* until Medicine.objects.get raises for a medicine that does not exist
RECURSIVE PostedItems(_, _, _, _)
PostedItems(order_id, next_id, items, acc) ==
    IF items = << >> THEN [rows |-> acc, raised |-> FALSE]
    ELSE LET it == Head(items) IN
         IF ~CompleteItem(it) THEN PostedItems(order_id, next_id, Tail(items), acc)
         ELSE IF ~MedicineExists(PyInt(it.medicine)) THEN [rows |-> acc, raised |-> TRUE]
         ELSE PostedItems(order_id, next_id + 1, Tail(items),
                          acc \cup {[id |-> next_id, order |-> order_id,
                                     medicine |-> PyInt(it.medicine),
                                     quantity |-> IntOf(it.quantity),
                                     price |-> DecimalOf(it.price)]})

\* admin_order_detail: the status is written when it is one of the choices
DetailStatus(o, new_status) ==
    IF new_status \in StatusChoices THEN [o EXCEPT !.status = new_status] ELSE o

AdminOrderDetail(order_id, method, new_status) ==
    LET found == { o \in orders : o.id = order_id } IN
    /\ IF found = {}
       THEN /\ response' = Respond("admin_order_detail", "staff", method, "404", 0)
            /\ UNCHANGED orders
       ELSE IF method = "POST"
       THEN /\ orders' = (orders \ found)
                         \cup { DetailStatus(o, new_status) : o \in found }
            /\ response' = Respond("admin_order_detail", "staff", method,
                                   "redirect:admin_order_detail", 0)
       ELSE /\ response' = Respond("admin_order_detail", "staff", method,
                                   "render:order_detail", 0)
            /\ UNCHANGED orders
    /\ Serve
    /\ UNCHANGED <<medicines, carts, cartItems, session, orderItems, nextId, requests,
                   addCalls, office>>

\* Order.objects.create(user=user, status=status, ...) of admin_order_add
AddedOrder(id, p) ==
    [id |-> id, user |-> p.user, total_amount |-> DecimalOf(p.total_amount),
     status |-> p.status, shipping_address |-> p.shipping_address,
     phone_number |-> p.phone_number, created_at |-> id]

AdminOrderAdd(method, p) ==
    LET order == AddedOrder(nextId.Order, p)
        res == PostedItems(nextId.Order, nextId.OrderItem, p.items, {})
    IN
    /\ IF method # "POST"
       THEN /\ response' = Respond("admin_order_add", "staff", method, "render:order_form", 0)
            /\ UNCHANGED <<orders, orderItems, nextId>>
       ELSE IF ~AllFields(p) \/ p.user \notin Users
       THEN /\ response' = Respond("admin_order_add", "staff", method,
                                   "redirect:admin_order_add", 0)
            /\ UNCHANGED <<orders, orderItems, nextId>>
       ELSE /\ nextId' = [nextId EXCEPT !.Order = @ + 1,
                                        !.OrderItem = @ + Cardinality(res.rows)]
            /\ IF res.raised
               THEN \* except Exception: the rows written so far stay
                    /\ orders' = orders \cup {order}
                    /\ orderItems' = orderItems \cup res.rows
                    /\ response' = Respond("admin_order_add", "staff", method,
                                           "redirect:admin_order_add", 0)
               ELSE IF res.rows = {}
               THEN \* item_count == 0: order.delete()
                    /\ UNCHANGED <<orders, orderItems>>
                    /\ response' = Respond("admin_order_add", "staff", method,
                                           "redirect:admin_order_add", 0)
               ELSE /\ orders' = orders \cup {order}
                    /\ orderItems' = orderItems \cup res.rows
                    /\ response' = Respond("admin_order_add", "staff", method,
                                           "redirect:admin_order_detail", 0)
    /\ Serve
    /\ UNCHANGED <<medicines, carts, cartItems, session, requests, addCalls, office>>

\* variant: the form saves the status only
EditedOrderStatusOnly(o, p) == [o EXCEPT !.status = p.status]

\* order.user = user ... order.save() of admin_order_edit
EditedOrder(o, p) ==
    [o EXCEPT !.user = p.user, !.status = p.status,
              !.phone_number = p.phone_number, !.total_amount = DecimalOf(p.total_amount),
              !.shipping_address = p.shipping_address]

AdminOrderEdit(order_id, method, p) ==
    LET found == { o \in orders : o.id = order_id }
        res == PostedItems(order_id, nextId.OrderItem, p.items, {})
    IN
    /\ IF found = {}
       THEN /\ response' = Respond("admin_order_edit", "staff", method, "404", 0)
            /\ UNCHANGED <<orders, orderItems, nextId>>
       ELSE IF method # "POST"
       THEN /\ response' = Respond("admin_order_edit", "staff", method, "render:order_form", 0)
            /\ UNCHANGED <<orders, orderItems, nextId>>
       ELSE IF ~AllFields(p) \/ p.user \notin Users
       THEN /\ response' = Respond("admin_order_edit", "staff", method,
                                   "redirect:admin_order_edit", 0)
            /\ UNCHANGED <<orders, orderItems, nextId>>
       ELSE /\ orders' = (orders \ found) \cup { EditedOrder(o, p) : o \in found }
            \* order.items.all().delete(), then the posted rows
            /\ orderItems' = { oi \in orderItems : oi.order # order_id } \cup res.rows
            /\ nextId' = [nextId EXCEPT !.OrderItem = @ + Cardinality(res.rows)]
            /\ response' = Respond("admin_order_edit", "staff", method,
                                   IF res.raised \/ res.rows = {}
                                   THEN "redirect:admin_order_edit"
                                   ELSE "redirect:admin_order_detail", 0)
    /\ Serve
    /\ UNCHANGED <<medicines, carts, cartItems, session, requests, addCalls, office>>

\* admin_order_delete: the OrderItem rows go with the Order
AdminOrderDelete(order_id, method) ==
    LET found == { o \in orders : o.id = order_id } IN
    /\ IF found = {}
       THEN /\ response' = Respond("admin_order_delete", "staff", method, "404", 0)
            /\ UNCHANGED <<orders, orderItems>>
       ELSE IF method = "POST"
       THEN /\ orders' = orders \ found
            /\ orderItems' = { oi \in orderItems : oi.order # order_id }
            /\ response' = Respond("admin_order_delete", "staff", method,
                                   "redirect:admin_orders", 0)
       ELSE /\ response' = Respond("admin_order_delete", "staff", method,
                                   "render:order_delete", 0)
            /\ UNCHANGED <<orders, orderItems>>
    /\ Serve
    /\ UNCHANGED <<medicines, carts, cartItems, session, nextId, requests, addCalls, office>>

-----------------------------------------------------------------------------
(* Back office: admin_bulk_actions *)

BulkActions ==
    {"activate", "deactivate", "delete_out_of_stock", "update_stock", "delete_selected",
     "delete_inactive", "delete_expired", "mark_low_stock", "bulk_status_update",
     "bulk_delete_orders"}
BulkMedicineIds == { {}, {2} }
BulkOrderIds == { {}, {1}, {1, 2} }
BulkStatuses == {"SHIPPED", "RETURNED"}
BulkStocks == {"", "0"}
BulkCriteria == { {}, {"selected", "cancelled"} }

\* QuerySet.update(...) of the selected medicines
MedicinesUpdated(ids, field, value) ==
    medicines' = [m \in DOMAIN medicines |->
                    IF m \in ids
                    THEN CASE field = "is_active" -> [medicines[m] EXCEPT !.is_active = value]
                           [] field = "stock_quantity" ->
                                [medicines[m] EXCEPT !.stock_quantity = value]
                    ELSE medicines[m]]

\* QuerySet.delete() of medicines, with their CartItem and OrderItem rows
MedicinesDeleted(gone) ==
    /\ medicines' = [m \in DOMAIN medicines \ gone |-> medicines[m]]
    /\ cartItems' = { ci \in cartItems : ci.medicine \notin gone }
    /\ orderItems' = { oi \in orderItems : oi.medicine \notin gone }
    /\ addCalls' = [s \in Sessions |->
                      [m \in MedIds |-> IF m \in gone THEN 0 ELSE addCalls[s][m]]]

\* the orders that the criteria of bulk_delete_orders name
OrdersToDelete(delete_criteria, order_ids) ==
    { o \in orders :
        \/ "pending" \in delete_criteria /\ o.status = "PENDING"
        \/ "cancelled" \in delete_criteria /\ o.status = "CANCELLED"
        \/ "selected" \in delete_criteria /\ o.id \in order_ids }

\* admin_bulk_actions: 'if request.method == "POST"' with the medicine
\* actions, which returns for every POST, then 'elif request.method ==
\* "POST"' with the order actions, then the redirect of any other request
AdminBulkActions(method, action, medicine_ids, order_ids, status, new_stock, delete_criteria) ==
    LET selected == medicine_ids \cap DOMAIN medicines IN
    /\ IF method = "POST"
       THEN IF medicine_ids = {}
            THEN /\ response' = Respond("admin_bulk_actions", "staff", method,
                                        "redirect:admin_medicines", 0)
                 /\ UNCHANGED <<medicines, cartItems, orderItems, addCalls, orders>>
            ELSE /\ CASE action = "activate" ->
                           /\ MedicinesUpdated(selected, "is_active", TRUE)
                           /\ UNCHANGED <<cartItems, orderItems, addCalls>>
                      [] action = "deactivate" ->
                           /\ MedicinesUpdated(selected, "is_active", FALSE)
                           /\ UNCHANGED <<cartItems, orderItems, addCalls>>
                      [] action = "delete_out_of_stock" ->
                           MedicinesDeleted({ m \in selected :
                                                medicines[m].stock_quantity = 0 })
                      [] action = "update_stock" /\ new_stock # "" ->
                           /\ MedicinesUpdated(selected, "stock_quantity", IntOf(new_stock))
                           /\ UNCHANGED <<cartItems, orderItems, addCalls>>
                      [] action = "delete_selected" -> MedicinesDeleted(selected)
                      [] action = "delete_inactive" ->
                           MedicinesDeleted({ m \in DOMAIN medicines :
                                                ~medicines[m].is_active })
                      [] action = "mark_low_stock" ->
                           /\ MedicinesUpdated(selected, "stock_quantity", 5)
                           /\ UNCHANGED <<cartItems, orderItems, addCalls>>
                      [] OTHER -> UNCHANGED <<medicines, cartItems, orderItems, addCalls>>
                 /\ response' = Respond("admin_bulk_actions", "staff", method,
                                        "redirect:admin_medicines", 0)
                 /\ UNCHANGED orders
       ELSE IF method = "POST"
       THEN /\ CASE action = "bulk_status_update" ->
                      /\ orders' =
                           IF order_ids # {} /\ status \in StatusChoices
                           THEN { IF o.id \in order_ids THEN [o EXCEPT !.status = status]
                                  ELSE o : o \in orders }
                           ELSE orders
                      /\ UNCHANGED orderItems
                 [] action = "bulk_delete_orders" ->
                      LET gone == { o.id : o \in OrdersToDelete(delete_criteria, order_ids) }
                      IN /\ orders' = { o \in orders : o.id \notin gone }
                         /\ orderItems' = { oi \in orderItems : oi.order \notin gone }
                 [] OTHER -> UNCHANGED <<orders, orderItems>>
            /\ response' = Respond("admin_bulk_actions", "staff", method,
                                   IF action \in {"bulk_status_update", "bulk_delete_orders"}
                                   THEN "redirect:admin_orders"
                                   ELSE "redirect:admin_medicines", 0)
            /\ UNCHANGED <<medicines, cartItems, addCalls>>
       ELSE /\ response' = Respond("admin_bulk_actions", "staff", method,
                                   "redirect:admin_medicines", 0)
            /\ UNCHANGED <<medicines, cartItems, orderItems, addCalls, orders>>
    /\ Serve
    /\ UNCHANGED <<carts, session, nextId, requests, office>>

-----------------------------------------------------------------------------
(* Back office: the medicine form for a new medicine *)

\* the manufacturers typed into the form
Manufacturers ==
    { << >>,
      <<" ">>,
      <<"\t", "\n", " ", "\r">>,
      <<"C", "i", "p", "l", "a">>,
      <<" ", "C", "i", "p", "l", "a", " ">>,
      <<"\t", "S", "u", "n", " ", "P", "h", "a", "r", "m", "a", " ", "\n">> }

\* POST payloads of the form: valid data with each manufacturer, and data
\* that the view cannot save (no price, a category that does not exist)
AddPayloads ==
    { [name |-> "Ibuprofen 200mg", category |-> 3, price |-> "50.00",
       stock_quantity |-> "5", manufacturer |-> mf, is_active |-> TRUE] :
         mf \in Manufacturers }
    \cup { [name |-> "Ibuprofen 200mg", category |-> 3, price |-> "",
            stock_quantity |-> "5", manufacturer |-> <<"C", "i", "p", "l", "a">>, is_active |-> TRUE],
           [name |-> "Ibuprofen 200mg", category |-> 9, price |-> "90.00",
            stock_quantity |-> "5", manufacturer |-> <<"C", "i", "p", "l", "a">>, is_active |-> FALSE] }

\* float(price) and int(stock_quantity) succeed and the category exists
IsDecimalStr(str) == \E a \in KnownPrices : DecimalStr(a) = str
Saveable(p) ==
    /\ IsDecimalStr(p.price)
    /\ IsIntStr(p.stock_quantity)
    /\ p.category \in DOMAIN categories

\* the posted text or None, not stripped
ManufacturerUnstripped(text) == OrNone(text)

\* request.POST.get('manufacturer', '').strip() or None
PostedManufacturer(text) == OrNone(StripText(text))

CreatedMedicine(p) ==
    [name |-> p.name, category |-> p.category, price |-> DecimalOf(p.price),
     stock_quantity |-> IntOf(p.stock_quantity),
     manufacturer |-> PostedManufacturer(p.manufacturer),
     image |-> "", is_active |-> p.is_active]

\* admin_medicine_edit without a medicine_id (the URL admin_medicine_add), POST
AdminMedicineAdd(p) ==
    /\ nextId.Medicine <= MaxMedicineId
    /\ IF Saveable(p)
       THEN /\ medicines' = medicines @@ (nextId.Medicine :> CreatedMedicine(p))
            /\ nextId' = [nextId EXCEPT !.Medicine = @ + 1]
            /\ response' = Respond("admin_medicine_add", "staff", "POST",
                                   "redirect:admin_medicines", 0)
       ELSE /\ response' = Respond("admin_medicine_add", "staff", "POST",
                                   "render:medicine_form", 0)
            /\ UNCHANGED <<medicines, nextId>>
    /\ Serve
    /\ UNCHANGED <<office, storefront>>

-----------------------------------------------------------------------------
(* Back office: categories *)

\* the actions of the category page that add, change or delete categories,
\* and the ids and names they post
CategoryActions == {"add", "edit", "delete", "delete_empty", "bulk_delete", "sort_categories"}
CategoryIds == 1..4
CategoryNames == {"", "Ayurveda"}
CategoryIdLists == { {}, {1, 3}, {3, 4} }

\* Count('medicine') of a category
MedicineCount(c) == Cardinality({ m \in DOMAIN medicines : medicines[m].category = c })

\* the categories among ids, whatever they hold
EmptyAmongAll(ids) == ids \cap DOMAIN categories

\* .annotate(medicine_count=Count('medicine')).filter(medicine_count=0)
EmptyAmong(ids) == { c \in ids \cap DOMAIN categories : MedicineCount(c) = 0 }

\* QuerySet.delete() of categories: Medicine.category is on_delete=CASCADE,
\* and CartItem.medicine and OrderItem.medicine are too
CategoriesDeleted(ids) ==
    LET gone == { m \in DOMAIN medicines : medicines[m].category \in ids } IN
    /\ categories' = [c \in DOMAIN categories \ ids |-> categories[c]]
    /\ medicines' = [m \in DOMAIN medicines \ gone |-> medicines[m]]
    /\ cartItems' = { ci \in cartItems : ci.medicine \notin gone }
    /\ orderItems' = { oi \in orderItems : oi.medicine \notin gone }
    /\ addCalls' = [s \in Sessions |->
                      [m \in MedIds |-> IF m \in gone THEN 0 ELSE addCalls[s][m]]]

CategoriesKept == UNCHANGED <<categories, medicines, cartItems, orderItems, addCalls>>

\* admin_categories, POST
AdminCategories(action, category_id, name, category_ids) ==
    /\ CASE action = "add" ->
              IF name # ""
              THEN /\ categories' = categories @@ (nextId.Category :> [name |-> name])
                   /\ nextId' = [nextId EXCEPT !.Category = @ + 1]
                   /\ response' = Respond("admin_categories", "staff", "POST", "added", 0)
                   /\ UNCHANGED <<medicines, cartItems, orderItems, addCalls>>
              ELSE /\ response' = Respond("admin_categories", "staff", "POST",
                                          "Category name is required!", 0)
                   /\ CategoriesKept /\ UNCHANGED nextId
         [] action = "edit" ->
              IF category_id \in DOMAIN categories
              THEN /\ categories' = [categories EXCEPT ![category_id].name = name]
                   /\ response' = Respond("admin_categories", "staff", "POST", "updated", 0)
                   /\ UNCHANGED <<medicines, cartItems, orderItems, addCalls, nextId>>
              ELSE /\ response' = Respond("admin_categories", "staff", "POST",
                                          "Category not found!", 0)
                   /\ CategoriesKept /\ UNCHANGED nextId
         [] action = "delete" ->
              IF category_id \notin DOMAIN categories
              THEN /\ response' = Respond("admin_categories", "staff", "POST",
                                          "Category not found!", 0)
                   /\ CategoriesKept /\ UNCHANGED nextId
              ELSE IF MedicineCount(category_id) > 0
              THEN /\ response' = Respond("admin_categories", "staff", "POST",
                                          "Cannot delete category - it has medicines!", 0)
                   /\ CategoriesKept /\ UNCHANGED nextId
              ELSE /\ CategoriesDeleted({category_id})
                   /\ response' = Respond("admin_categories", "staff", "POST", "deleted", 0)
                   /\ UNCHANGED nextId
         [] action = "delete_empty" ->
              /\ CategoriesDeleted(EmptyAmong(DOMAIN categories))
              /\ response' = Respond("admin_categories", "staff", "POST", "empty deleted", 0)
              /\ UNCHANGED nextId
         [] action = "bulk_delete" ->
              IF category_ids # {}
              THEN /\ CategoriesDeleted(EmptyAmong(category_ids))
                   /\ response' = Respond("admin_categories", "staff", "POST",
                                          "bulk deleted", 0)
                   /\ UNCHANGED nextId
              ELSE /\ response' = Respond("admin_categories", "staff", "POST",
                                          "No categories selected for deletion!", 0)
                   /\ CategoriesKept /\ UNCHANGED nextId
         [] OTHER ->
              /\ response' = Respond("admin_categories", "staff", "POST", "info", 0)
              /\ CategoriesKept /\ UNCHANGED nextId
    /\ Serve
    /\ UNCHANGED <<carts, session, orders, requests, siteSettings, feedbacks, form>>

-----------------------------------------------------------------------------
(* Customer feedback: submission, the feedback page of the back office and
   the bulk actions of the Django admin *)

FeedbackIds == {1, 2}
FeedbackIdLists == { {1}, {1, 2} }
FeedbackActions == {"approve", "unapprove", "feature", "unfeature", "delete", ""}
FeedbackNames == {"", "Ravi"}
FeedbackRatings == {"", "5", "abc"}

\* CustomerFeedback.objects.create: is_approved and is_featured default False
CreatedFeedback(id, name, rating) ==
    [id |-> id, name |-> name, rating |-> rating,
     is_approved |-> FALSE, is_featured |-> FALSE]

\* submit_feedback
SubmitFeedback(method, name, rating) ==
    /\ IF method = "POST" /\ name # "" /\ rating # "" /\ IsIntStr(rating)
       THEN /\ feedbacks' = feedbacks \cup
                 { CreatedFeedback(nextId.CustomerFeedback, name, IntOf(rating)) }
            /\ nextId' = [nextId EXCEPT !.CustomerFeedback = @ + 1]
       ELSE UNCHANGED <<feedbacks, nextId>>
    /\ response' = Respond("submit_feedback", NoUser, method, "redirect:home", 0)
    /\ Serve
    /\ UNCHANGED <<medicines, categories, siteSettings, form, storefront>>

\* the feedback after an action of admin_feedback_action
ActedFeedback(f, action) ==
    CASE action = "approve" -> [f EXCEPT !.is_approved = TRUE]
      [] action = "unapprove" -> [f EXCEPT !.is_approved = FALSE, !.is_featured = FALSE]
      [] action = "feature" -> [f EXCEPT !.is_featured = TRUE, !.is_approved = TRUE]
      [] action = "unfeature" -> [f EXCEPT !.is_featured = FALSE]
      [] OTHER -> f

\* admin_feedback_action for a customer feedback, POST
AdminFeedbackAction(feedback_id, action) ==
    LET found == { f \in feedbacks : f.id = feedback_id } IN
    /\ IF found = {}
       THEN /\ response' = Respond("admin_feedback_action", "staff", "POST", "404", 0)
            /\ UNCHANGED feedbacks
       ELSE /\ feedbacks' =
                 IF action = "delete" THEN feedbacks \ found
                 ELSE (feedbacks \ found) \cup { ActedFeedback(f, action) : f \in found }
            /\ response' = Respond("admin_feedback_action", "staff", "POST",
                                   "redirect:admin_feedbacks", 0)
    /\ Serve
    /\ UNCHANGED <<medicines, categories, siteSettings, form, nextId, storefront>>

\* queryset.update(...) of the three actions of CustomerFeedbackAdmin
UpdatedFeedback(f, action) ==
    CASE action = "approve_feedback" -> [f EXCEPT !.is_approved = TRUE]
      [] action = "unapprove_feedback" -> [f EXCEPT !.is_approved = FALSE]
      [] action = "mark_as_featured" -> [f EXCEPT !.is_featured = TRUE, !.is_approved = TRUE]

FeedbackAdminActions == {"approve_feedback", "unapprove_feedback", "mark_as_featured"}

\* an action of the Django admin on the selected feedbacks
FeedbackAdminAction(action, ids) ==
    /\ feedbacks' = { IF f.id \in ids THEN UpdatedFeedback(f, action) ELSE f : f \in feedbacks }
    /\ response' = Respond(action, "staff", "POST", "redirect:changelist", 0)
    /\ Serve
    /\ UNCHANGED <<medicines, categories, siteSettings, form, nextId, storefront>>

-----------------------------------------------------------------------------
(* SiteSettings: the row of site-wide settings, meant to be the only one *)

\* SiteSettings.save(): a new instance (pk None, written 0) is refused when a
\* row exists; an instance that has a pk is written under that pk
SaveRefused(rows, obj) == obj.pk = 0 /\ rows # {}
SavedSettings(rows, obj, next_pk) ==
    IF obj.pk = 0 THEN rows \cup { [obj EXCEPT !.pk = next_pk] }
    ELSE { r \in rows : r.pk # obj.pk } \cup {obj}

\* get_or_create(pk=1): the row of pk 1, or a new instance with pk=1 that
\* goes through save()
GetOrCreated(rows) ==
    IF \E r \in rows : r.pk = 1 THEN rows
    ELSE IF SaveRefused(rows, CreatedSettings(1)) THEN rows
    ELSE SavedSettings(rows, CreatedSettings(1), 0)
GetSettings(rows) == CHOOSE r \in GetOrCreated(rows) : r.pk = 1

\* the sequence of the table after an insert with the pk given: some
\* databases move it past that pk (follows), others leave it
SequenceAfter(rows, next_pk, follows) ==
    IF GetOrCreated(rows) # rows /\ follows /\ next_pk < 2 THEN 2 ELSE next_pk

\* the values posted to the social settings page
SocialPosts ==
    { [facebook_url |-> <<" ", "f", "a", "c", "e", "b", "o", "o", "k", ".", "c", "o", "m", "/", "m", "e", "d", "s", "h", "o", "p", " ">>, whatsapp_number |-> <<" ", " ">>],
      [facebook_url |-> <<>>, whatsapp_number |-> <<"+", "9", "1", "9", "8", "1", "0", "0", "0", "0", "0", "0", "1">>] }

\* SiteSettings(...).save() of a new instance, as the ORM offers it
SiteSettingsCreate ==
    LET obj == CreatedSettings(0) IN
    /\ IF SaveRefused(siteSettings, obj)
       THEN /\ response' = Respond("SiteSettings.save", NoUser, "GET", "ValueError", 0)
            /\ UNCHANGED <<siteSettings, nextId>>
       ELSE /\ siteSettings' = SavedSettings(siteSettings, obj, nextId.SiteSettings)
            /\ nextId' = [nextId EXCEPT !.SiteSettings = @ + 1]
            /\ response' = Respond("SiteSettings.save", NoUser, "GET", "saved", 0)
    /\ Serve
    /\ UNCHANGED <<medicines, categories, feedbacks, form, storefront>>

\* the context processor of every rendered page
SiteSettingsContext(follows) ==
    /\ siteSettings' = GetOrCreated(siteSettings)
    /\ nextId' = [nextId EXCEPT
                    !.SiteSettings = SequenceAfter(siteSettings, @, follows)]
    /\ response' = Respond("site_settings", NoUser, "GET", "context", 0)
    /\ Serve
    /\ UNCHANGED <<medicines, categories, feedbacks, form, storefront>>

\* admin_social_settings
AdminSocialSettings(method, posted, follows) ==
    LET settings == GetSettings(siteSettings) IN
    /\ IF method = "POST"
       THEN /\ siteSettings' =
                 SavedSettings(GetOrCreated(siteSettings),
                               [settings EXCEPT
                                  !.facebook_url = OrNone(StripText(posted.facebook_url)),
                                  !.whatsapp_number = OrNone(StripText(posted.whatsapp_number))],
                               0)
            /\ response' = Respond("admin_social_settings", "staff", method,
                                   "redirect:admin_social_settings", 0)
       ELSE /\ siteSettings' = GetOrCreated(siteSettings)
            /\ response' = Respond("admin_social_settings", "staff", method,
                                   "render:social_settings", 0)
    /\ nextId' = [nextId EXCEPT
                    !.SiteSettings = SequenceAfter(siteSettings, @, follows)]
    /\ Serve
    /\ UNCHANGED <<medicines, categories, feedbacks, form, storefront>>

\* SiteSettings.objects.all().delete()
SiteSettingsDelete ==
    /\ siteSettings' = {}
    /\ response' = Respond("SiteSettings.delete", NoUser, "GET", "deleted", 0)
    /\ Serve
    /\ UNCHANGED <<medicines, categories, feedbacks, form, nextId, storefront>>

-----------------------------------------------------------------------------
(* SocialSettingsForm: the social URLs and the WhatsApp number *)

\* str: the positions a part occurs at, startswith, in, lower and
\* replace(old, new, 1)
Occurrences(t, part) ==
    { i \in 1..(Len(t) - Len(part) + 1) : SubSeq(t, i, i + Len(part) - 1) = part }
First(positions) == CHOOSE i \in positions : \A j \in positions : i <= j
StartsWith(t, prefix) ==
    Len(t) >= Len(prefix) /\ SubSeq(t, 1, Len(prefix)) = prefix
Contains(t, part) == Occurrences(t, part) # {}
UpperLetters == <<"A", "B", "C", "D", "E", "F", "G", "H", "I", "J", "K", "L", "M", "N", "O", "P", "Q", "R", "S", "T", "U", "V", "W", "X", "Y", "Z">>
LowerLetters == <<"a", "b", "c", "d", "e", "f", "g", "h", "i", "j", "k", "l", "m", "n", "o", "p", "q", "r", "s", "t", "u", "v", "w", "x", "y", "z">>
LowerChar(c) ==
    IF \E i \in 1..26 : UpperLetters[i] = c
    THEN LowerLetters[CHOOSE i \in 1..26 : UpperLetters[i] = c]
    ELSE c
Lower(t) == [i \in 1..Len(t) |-> LowerChar(t[i])]
ReplaceFirst(t, old, new) ==
    IF ~Contains(t, old) THEN t
    ELSE LET i == First(Occurrences(t, old)) IN
         SubSeq(t, 1, i - 1) \o new \o SubSeq(t, i + Len(old), Len(t))

\* the character classes of the patterns, over the characters of the inputs
Letters == { UpperLetters[i] : i \in 1..26 } \cup { LowerLetters[i] : i \in 1..26 }
Digits == {"0", "1", "2", "3", "4", "5", "6", "7", "8", "9"}

\* a clean method or a field either raises ValidationError or returns a value
Raised == [raised |-> TRUE]
Returned(value) == [raised |-> FALSE, value |-> value]

\* urlsplit and urlunsplit of urllib.parse, as forms.URLField.to_python uses
\* them: the scheme comes back in lower case; query and fragment stay in the
\* path, which puts them back where they were
SchemeChars == Letters \cup Digits \cup {"+", "-", "."}
UsesNetloc == { <<"h", "t", "t", "p">>, <<"h", "t", "t", "p", "s">>, <<"f", "t", "p">>, <<"s", "f", "t", "p">>, <<"f", "i", "l", "e">>, <<"w", "s">>, <<"w", "s", "s">> }
PathStart(t) ==
    LET ends == { k \in 1..Len(t) : t[k] \in {"/", "?", "#"} } IN
    IF ends = {} THEN Len(t) + 1 ELSE First(ends)
SplitUrl(url) ==
    LET colons == Occurrences(url, <<":">>)
        i == First(colons)
        hasScheme == /\ colons # {}
                     /\ i > 1
                     /\ url[1] \in Letters
                     /\ \A k \in 1..(i - 1) : url[k] \in SchemeChars
        rest == IF hasScheme THEN SubSeq(url, i + 1, Len(url)) ELSE url
        hasNetloc == StartsWith(rest, <<"/", "/">>)
        after == SubSeq(rest, 3, Len(rest))
    IN  [scheme |-> IF hasScheme THEN Lower(SubSeq(url, 1, i - 1)) ELSE << >>,
         netloc |-> IF hasNetloc THEN SubSeq(after, 1, PathStart(after) - 1) ELSE << >>,
         path |-> IF hasNetloc THEN SubSeq(after, PathStart(after), Len(after)) ELSE rest]
UnsplitUrl(f) ==
    IF f.netloc # << >> \/ (f.scheme \in UsesNetloc /\ ~StartsWith(f.path, <<"/", "/">>))
    THEN f.scheme \o <<":", "/", "/">> \o f.netloc \o f.path
    ELSE f.scheme \o <<":">> \o f.path

\* forms.URLField.to_python: a value without a scheme gets the assumed one
\* ("http", or "https" from Django 6.0 on); a value without a network location
\* has its path taken for one
AssumedSchemes == { <<"h", "t", "t", "p">>, <<"h", "t", "t", "p", "s">> }
UrlToPython(value, assume_scheme) ==
    LET f == SplitUrl(value)
        g == [f EXCEPT !.scheme = IF @ = << >> THEN assume_scheme ELSE @]
        h == IF g.netloc = << >>
             THEN SplitUrl(UnsplitUrl([g EXCEPT !.netloc = g.path, !.path = << >>]))
             ELSE g
    IN  UnsplitUrl(h)

\* URLValidator(): no whitespace, a scheme among http, https, ftp and ftps
\* before "://", then a host name of dotted labels that ends in a top-level
\* domain of letters (or localhost), an optional port, and any path. User
\* information, IP addresses and internationalised names are not among the
\* inputs.
ValidSchemes == { <<"h", "t", "t", "p">>, <<"h", "t", "t", "p", "s">>, <<"f", "t", "p">>, <<"f", "t", "p", "s">> }
RECURSIVE SplitText(_, _)
SplitText(t, sep) ==
    LET at == Occurrences(t, <<sep>>) IN
    IF at = {} THEN <<t>>
    ELSE <<SubSeq(t, 1, First(at) - 1)>> \o SplitText(SubSeq(t, First(at) + 1, Len(t)), sep)
IsLabel(l) ==
    /\ Len(l) \in 1..63
    /\ \A k \in 1..Len(l) : l[k] \in Letters \cup Digits \cup {"-"}
    /\ l[1] # "-" /\ l[Len(l)] # "-"
IsTld(l) ==
    /\ Len(l) \in 2..63
    /\ \A k \in 1..Len(l) : l[k] \in Letters \cup {"-"}
    /\ l[1] # "-" /\ l[Len(l)] # "-"
IsHost(host) ==
    LET labels == SplitText(host, ".") IN
    \/ Lower(host) = <<"l", "o", "c", "a", "l", "h", "o", "s", "t">>
    \/ /\ Len(labels) >= 2
       /\ \A k \in 1..(Len(labels) - 1) : IsLabel(labels[k])
       /\ IsTld(labels[Len(labels)])
IsPort(port) == Len(port) \in 1..5 /\ \A k \in 1..Len(port) : port[k] \in Digits
UrlIsValid(url) ==
    LET marks == Occurrences(url, <<":", "/", "/">>)
        i == First(marks)
        after == SubSeq(url, i + 3, Len(url))
        authority == SubSeq(after, 1, PathStart(after) - 1)
        colons == Occurrences(authority, <<":">>)
    IN  /\ \A k \in 1..Len(url) : url[k] \notin Whitespace
        /\ marks # {}
        /\ Lower(SubSeq(url, 1, i - 1)) \in ValidSchemes
        /\ IF colons = {} THEN IsHost(authority)
           ELSE /\ IsHost(SubSeq(authority, 1, First(colons) - 1))
                /\ IsPort(SubSeq(authority, First(colons) + 1, Len(authority)))

\* the fields of the form that are modelled, of its five URL fields two, and
\* the domain each clean method expects
SocialUrlFields == {"facebook_url", "instagram_url"}
SocialFields == SocialUrlFields \cup {"whatsapp_number"}
ExpectedDomain ==
    [facebook_url |-> <<"f", "a", "c", "e", "b", "o", "o", "k", ".", "c", "o", "m">>, instagram_url |-> <<"i", "n", "s", "t", "a", "g", "r", "a", "m", ".", "c", "o", "m">>]

\* max_length of a URLField left at its default, and of whatsapp_number
UrlMaxLength == 200
WhatsappMaxLength == 20

\* the form field of a models.URLField(blank=True, null=True): the stripped
\* value, None when empty, else to_python and the validators of the field
UrlFieldClean(raw, assume_scheme) ==
    LET value == StripText(raw)
        url == UrlToPython(value, assume_scheme)
    IN  IF value = << >> THEN Returned(PyNone)
        ELSE IF UrlIsValid(url) /\ Len(url) <= UrlMaxLength THEN Returned(Some(url))
        ELSE Raised

\* the form field of whatsapp_number, a CharField(max_length=20, blank=True,
\* null=True)
WhatsappFieldClean(raw) ==
    LET value == StripText(raw) IN
    IF value = << >> THEN Returned(PyNone)
    ELSE IF Len(value) <= WhatsappMaxLength THEN Returned(Some(value))
    ELSE Raised

\* variant: the protocol is left as it was typed
UrlValidatedOnly(url, expected_domain) ==
    LET prefixed == IF ~(StartsWith(url, <<"h", "t", "t", "p", ":", "/", "/">>) \/ StartsWith(url, <<"h", "t", "t", "p", "s", ":", "/", "/">>))
                    THEN <<"h", "t", "t", "p", "s", ":", "/", "/">> \o url ELSE url
    IN  IF url = << >> THEN Returned(url)
        ELSE IF ~UrlIsValid(prefixed) THEN Raised
        ELSE IF ~Contains(Lower(prefixed), expected_domain) THEN Raised
        ELSE Returned(prefixed)
\* _validate_and_normalize_url
ValidateAndNormalizeUrl(url, expected_domain) ==
    LET prefixed == IF ~(StartsWith(url, <<"h", "t", "t", "p", ":", "/", "/">>) \/ StartsWith(url, <<"h", "t", "t", "p", "s", ":", "/", "/">>))
                    THEN <<"h", "t", "t", "p", "s", ":", "/", "/">> \o url ELSE url
    IN  IF url = << >> THEN Returned(url)
        ELSE IF ~UrlIsValid(prefixed) THEN Raised
        ELSE IF ~Contains(Lower(prefixed), expected_domain) THEN Raised
        ELSE IF StartsWith(prefixed, <<"h", "t", "t", "p", ":", "/", "/">>)
        THEN Returned(ReplaceFirst(prefixed, <<"h", "t", "t", "p", ":", "/", "/">>, <<"h", "t", "t", "p", "s", ":", "/", "/">>))
        ELSE Returned(prefixed)

\* clean_facebook_url, clean_instagram_url: url is cleaned_data's value, None
\* or a text
CleanSocialUrl(url, field) ==
    IF url # PyNone
    THEN LET normalized == ValidateAndNormalizeUrl(url[1], ExpectedDomain[field]) IN
         IF normalized.raised THEN Raised ELSE Returned(Some(normalized.value))
    ELSE Returned(url)

\* re.sub(r'[^\d+]', '', number) and re.match(r'^\+\d{10,15}$', cleaned_number)
KeptInNumber(c) == c \in Digits \cup {"+"}
MatchesNumber(cleaned_number) ==
    /\ Len(cleaned_number) \in 11..16
    /\ cleaned_number[1] = "+"
    /\ \A k \in 2..Len(cleaned_number) : cleaned_number[k] \in Digits

\* variant: the number is returned as it was typed
WhatsappNumberChecked(number) ==
    IF number # PyNone
    THEN IF ~MatchesNumber(SelectSeq(number[1], KeptInNumber)) THEN Raised
         ELSE Returned(number)
    ELSE Returned(number)
\* clean_whatsapp_number
CleanWhatsappNumber(number) ==
    IF number # PyNone
    THEN LET cleaned_number == SelectSeq(number[1], KeptInNumber) IN
         IF ~MatchesNumber(cleaned_number) THEN Raised
         ELSE Returned(Some(cleaned_number))
    ELSE Returned(number)

\* BaseForm._clean_fields for one field: the field's own clean, then the
\* clean method of the form for it
FieldCleaned(data, field, assume_scheme) ==
    LET value == IF field \in SocialUrlFields
                 THEN UrlFieldClean(data[field], assume_scheme)
                 ELSE WhatsappFieldClean(data[field])
    IN  IF value.raised THEN Raised
        ELSE IF field \in SocialUrlFields THEN CleanSocialUrl(value.value, field)
        ELSE CleanWhatsappNumber(value.value)

\* what is typed into the form
FacebookInputs ==
    { <<>>, <<" ", " ">>,
      <<"h", "t", "t", "p", "s", ":", "/", "/", "f", "a", "c", "e", "b", "o", "o", "k", ".", "c", "o", "m", "/", "m", "e", "d", "s", "h", "o", "p">>, <<"h", "t", "t", "p", ":", "/", "/", "f", "a", "c", "e", "b", "o", "o", "k", ".", "c", "o", "m", "/", "m", "e", "d", "s", "h", "o", "p">>,
      <<"f", "a", "c", "e", "b", "o", "o", "k", ".", "c", "o", "m", "/", "m", "e", "d", "s", "h", "o", "p">>, <<" ", "f", "a", "c", "e", "b", "o", "o", "k", ".", "c", "o", "m", "/", "m", "e", "d", "s", "h", "o", "p", " ">>,
      <<"H", "T", "T", "P", ":", "/", "/", "F", "a", "c", "e", "b", "o", "o", "k", ".", "C", "O", "M", "/", "M", "e", "d", "S", "h", "o", "p">>, <<"w", "w", "w", ".", "f", "a", "c", "e", "b", "o", "o", "k", ".", "c", "o", "m", "/", "m", "e", "d", "s", "h", "o", "p">>,
      <<"f", "a", "c", "e", "b", "o", "o", "k", ".", "c", "o", "m">>, <<"f", "a", "c", "e", "b", "o", "o", "k", ".", "c", "o", "m", "/", "r", "/", "h", "t", "t", "p", ":", "/", "/", "a", ".", "i", "n">>,
      <<"h", "t", "t", "p", "s", ":", "/", "/", "i", "n", "s", "t", "a", "g", "r", "a", "m", ".", "c", "o", "m", "/", "m", "e", "d", "s", "h", "o", "p">>, <<"f", "t", "p", ":", "/", "/", "f", "a", "c", "e", "b", "o", "o", "k", ".", "c", "o", "m", "/", "m", "e", "d", "s", "h", "o", "p">>,
      <<"h", "t", "t", "p", ":", "/", "/">>, <<"n", "o", "t", " ", "a", " ", "u", "r", "l">>, <<"h", "t", "t", "p", "s", ":", "/", "/", "f", "a", "c", "e", "b", "o", "o", "k">>, <<"m", "e", "d", "s", "h", "o", "p">> }
InstagramInputs ==
    { <<>>, <<"i", "n", "s", "t", "a", "g", "r", "a", "m", ".", "c", "o", "m", "/", "m", "e", "d", "s", "h", "o", "p">>, <<"h", "t", "t", "p", "s", ":", "/", "/", "f", "a", "c", "e", "b", "o", "o", "k", ".", "c", "o", "m", "/", "m", "e", "d", "s", "h", "o", "p">> }
WhatsappInputs ==
    { <<>>, <<" ", " ">>,
      <<"+", "9", "1", "9", "8", "1", "0", "0", "0", "0", "0", "0", "1">>, <<"+", "9", "1", " ", "9", "8", "1", "0", "0", " ", "0", "0", "0", "0", "1">>, <<" ", "+", "9", "1", "-", "(", "9", "8", "1", "0", "0", ")", "-", "0", "0", "0", "0", "1", " ">>,
      <<"9", "1", "9", "8", "1", "0", "0", "0", "0", "0", "0", "1">>, <<"+", "1", "2", "3", "4", "5", "6", "7", "8", "9">>, <<"+", "1", "2", "3", "4", "5", "6", "7", "8", "9", "0">>,
      <<"+", "1", "2", "3", "4", "5", "6", "7", "8", "9", "0", "1", "2", "3", "4", "5">>, <<"+", "1", "2", "3", "4", "5", "6", "7", "8", "9", "0", "1", "2", "3", "4", "5", "6">>, <<"+", "9", "1", "+", "9", "8", "1", "0", "0", "0", "0", "0", "0", "1">>,
      <<"a", "b", "c">>, <<"t", "e", "l", " ", "+", "9", "1", "9", "8", "1", "0", "0", "0", "0", "0", "0", "1">>, <<"+", "9", "1", " ", "-", " ", "(", "9", "8", "1", "0", "0", ")", " ", "-", " ", "(", "0", "0", "0", "0", "1", ")">> }
SocialFormData ==
    { [facebook_url |-> f, instagram_url |-> i, whatsapp_number |-> w] :
        f \in FacebookInputs, i \in InstagramInputs, w \in WhatsappInputs }

\* SocialSettingsForm(data=form_data)
SocialSettingsFormBound(data, assume_scheme) ==
    /\ form = NoForm
    /\ form' = [state |-> "bound", data |-> data, assume_scheme |-> assume_scheme]
    /\ UNCHANGED <<medicines, categories, siteSettings, feedbacks, nextId,
                   response, served, storefront>>

\* form.is_valid(): cleaned_data holds the fields that raised nothing
SocialSettingsFormIsValid ==
    LET cleaned == [field \in SocialFields |->
                      FieldCleaned(form.data, field, form.assume_scheme)]
        errors == { field \in SocialFields : cleaned[field].raised }
    IN  /\ form.state = "bound"
        /\ form' = [state |-> "cleaned", data |-> form.data,
                    assume_scheme |-> form.assume_scheme,
                    errors |-> errors,
                    cleaned_data |-> [field \in SocialFields \ errors |->
                                        cleaned[field].value]]
        /\ UNCHANGED <<medicines, categories, siteSettings, feedbacks, nextId,
                       response, served, storefront>>

\* a valid form's values stored in the row of get_settings()
SocialSettingsFormSave(follows) ==
    LET settings == GetSettings(siteSettings) IN
    /\ form.state = "cleaned"
    /\ form.errors = {}
    /\ siteSettings' =
         SavedSettings(GetOrCreated(siteSettings),
                       [settings EXCEPT
                          !.facebook_url = form.cleaned_data.facebook_url,
                          !.whatsapp_number = form.cleaned_data.whatsapp_number],
                       0)
    /\ nextId' = [nextId EXCEPT
                    !.SiteSettings = SequenceAfter(siteSettings, @, follows)]
    /\ form' = [form EXCEPT !.state = "saved"]
    /\ UNCHANGED <<medicines, categories, feedbacks, response, served, storefront>>

-----------------------------------------------------------------------------
Next ==
    \/ \E s \in Sessions, m \in MedIds : AddToCart(s, m)
    \/ \E s \in Sessions : CartDetail(s)
    \/ \E s \in Sessions, id \in ItemIds, q \in PostedQuantities :
          UpdateCartItem(s, "POST", id, q)
    \/ \E s \in Sessions, id \in ItemIds : UpdateCartItem(s, "GET", id, NoQuantity)
    \/ \E s \in Sessions, id \in ItemIds : RemoveFromCart(s, id)
    \/ \E s \in Sessions, method \in Methods, addr \in Addresses, ph \in Phones,
          n \in CustomerNames, e \in CustomerEmails :
          Checkout(s, method, addr, ph, n, e)
    \/ \E m \in MedIds, p \in EditPayloads : AdminMedicineEdit(m, p)
    \/ \E m \in MedIds : AdminMedicineDelete(m)

Spec == Init /\ [][Next]_vars

\* two requests of logged-in browsers handled at the same time
InitConc == Init /\ \A s \in Sessions : IsAuthenticated(s)

NextConc ==
    \/ \E r \in Slots, s \in Sessions, m \in MedIds : AddBegin(r, s, m)
    \/ \E r \in Slots : AddInsert(r)
    \/ \E r \in Slots : AddSave(r)
    \/ \E r \in Slots : AddRespond(r)

SpecConc == InitConc /\ [][NextConc]_vars

\* checkout requests that can fail, one at a time, among requests to
\* add_to_cart and admin_medicine_delete
CheckoutSlots == {1}

NextCheckout ==
    \/ \E s \in Sessions, m \in MedIds : AddToCart(s, m)
    \/ \E r \in CheckoutSlots, s \in Sessions, method \in Methods, addr \in Addresses,
          ph \in Phones, n \in CustomerNames, e \in CustomerEmails :
          CheckoutBegin(r, s, method, addr, ph, n, e)
    \/ \E r \in CheckoutSlots : CheckoutCreateOrder(r)
    \/ \E r \in CheckoutSlots : CheckoutItem(r)
    \/ \E r \in CheckoutSlots : CheckoutClear(r)
    \/ \E r \in CheckoutSlots : CheckoutFail(r)
    \/ \E r \in CheckoutSlots : CheckoutRespond(r)
    \/ \E m \in MedIds : AdminMedicineDelete(m)

SpecCheckout == Init /\ [][NextCheckout]_vars

\* The shop with order tracking and the back office for orders.  It starts
\* after the first two requests of a browser, an add_to_cart of medicine 1
\* and the checkout POST that ordered it, as a guest or as the logged-in user.
InitOrders ==
    \E u \in {NoUser} \cup Users :
        /\ medicines = InitialMedicines
        /\ carts = IF u = NoUser THEN {} ELSE {u}
        /\ cartItems = {}
        /\ session = [s \in Sessions |->
                        IF u = NoUser THEN ClearedSession(AnonymousSession)
                        ELSE LoggedInSession(u)]
        /\ orders = { CreatedOrder(1, u, InitialMedicines[1].price,
                                   IF u = NoUser
                                   THEN GuestAddress("Ravi", "ravi@example.com", "12 MG Road")
                                   ELSE "12 MG Road",
                                   "9810000001") }
        /\ orderItems = { [id |-> 1, order |-> 1, medicine |-> 1, quantity |-> 1,
                           price |-> InitialMedicines[1].price] }
        /\ nextId = [FirstIds EXCEPT !.CartItem = IF u = NoUser THEN 1 ELSE 2,
                                     !.Order = 2, !.OrderItem = 2]
        /\ response = Respond("checkout", "sk1", "POST", "redirect:order_success", 0)
        /\ requests = [r \in Slots |-> Idle]
        /\ served = 2
        /\ addCalls = [s \in Sessions |-> [m \in MedIds |-> 0]]
        /\ InitOffice

NextOrders ==
    \/ \E s \in Sessions, m \in MedIds : AddToCart(s, m)
    \/ \E s \in Sessions, id \in ItemIds, q \in PostedQuantities :
          UpdateCartItem(s, "POST", id, q)
    \/ \E s \in Sessions, id \in ItemIds : RemoveFromCart(s, id)
    \/ \E s \in Sessions, method \in Methods, addr \in Addresses, ph \in Phones,
          n \in CustomerNames, e \in CustomerEmails :
          Checkout(s, method, addr, ph, n, e)
    \/ \E s \in Sessions, id \in TrackOrderIds, ph \in TrackPhones :
          TrackOrder(s, "POST", id, ph)
    \/ \E s \in Sessions : TrackOrder(s, "GET", "", "")
    \/ \E m \in MedIds, p \in EditPayloads : AdminMedicineEdit(m, p)
    \/ \E m \in MedIds : AdminMedicineDelete(m)
    \/ \E id \in OrderIds, st \in PostedStatuses : AdminOrderDetail(id, "POST", st)
    \/ \E id \in OrderIds : AdminOrderDetail(id, "GET", NoStatus)
    \/ \E p \in OrderPayloads : AdminOrderAdd("POST", p)
    \/ AdminOrderAdd("GET", NoPayload)
    \/ \E id \in OrderIds, p \in OrderPayloads : AdminOrderEdit(id, "POST", p)
    \/ \E id \in OrderIds : AdminOrderEdit(id, "GET", NoPayload)
    \/ \E id \in OrderIds, method \in Methods : AdminOrderDelete(id, method)
    \/ \E s \in Sessions, id \in OrderIds : OrderDetail(s, id)
    \/ \E s \in Sessions : OrderHistory(s)

SpecOrders == InitOrders /\ [][NextOrders]_vars

\* the states InitOrders starts from, as the shop reaches them
ReachedInitOrders == served = 2 /\ InitOrders

\* the settings of a site whose database was just created: no SiteSettings
\* row yet; the operations on SiteSettings in any order
InitSettings ==
    /\ medicines = InitialMedicines
    /\ carts = {}
    /\ cartItems = {}
    /\ session = [s \in Sessions |-> AnonymousSession]
    /\ orders = {}
    /\ orderItems = {}
    /\ nextId = [FirstIds EXCEPT !.SiteSettings = 1]
    /\ response = NoResponse
    /\ requests = [r \in Slots |-> Idle]
    /\ served = 0
    /\ addCalls = [s \in Sessions |-> [m \in MedIds |-> 0]]
    /\ categories = InitialCategories
    /\ siteSettings = {}
    /\ feedbacks = {}
    /\ form = NoForm

NextSettings ==
    \/ SiteSettingsCreate
    \/ \E follows \in BOOLEAN : SiteSettingsContext(follows)
    \/ \E method \in Methods, posted \in SocialPosts, follows \in BOOLEAN :
         AdminSocialSettings(method, posted, follows)
    \/ SiteSettingsDelete

SpecSettings == InitSettings /\ [][NextSettings]_vars

\* the medicine form of the back office, for new and existing medicines, and
\* medicine deletion
InitCatalogue == Init /\ \A s \in Sessions : ~IsAuthenticated(s)

NextMedicineForm ==
    \/ \E p \in AddPayloads : AdminMedicineAdd(p)
    \/ \E m \in MedIds, p \in EditPayloads : AdminMedicineEdit(m, p)
    \/ \E m \in 1..MaxMedicineId : AdminMedicineDelete(m)

SpecMedicineForm == InitCatalogue /\ [][NextMedicineForm]_vars

\* the category page of the back office, with medicines added to categories
\* and deleted
CategoryPayloads == { p \in AddPayloads : p.manufacturer = << >> }

NextCatalogue ==
    \/ \E p \in CategoryPayloads : AdminMedicineAdd(p)
    \/ \E m \in 1..MaxMedicineId : AdminMedicineDelete(m)
    \/ \E action \in {"add", "edit"}, id \in {1, 4}, name \in CategoryNames :
         AdminCategories(action, id, name, {})
    \/ \E action \in {"delete", "delete_empty", "sort_categories"}, id \in CategoryIds :
         AdminCategories(action, id, "", {})
    \/ \E ids \in CategoryIdLists : AdminCategories("bulk_delete", 0, "", ids)

SpecCatalogue == InitCatalogue /\ [][NextCatalogue]_vars

\* feedback of customers and its moderation
NextFeedback ==
    \/ \E method \in Methods, name \in FeedbackNames, rating \in FeedbackRatings :
         SubmitFeedback(method, name, rating)
    \/ \E id \in FeedbackIds, action \in FeedbackActions : AdminFeedbackAction(id, action)
    \/ \E action \in FeedbackAdminActions, ids \in FeedbackIdLists :
         FeedbackAdminAction(action, ids)

SpecFeedback == InitCatalogue /\ [][NextFeedback]_vars

\* the bulk actions of the back office on the orders and medicines of a shop
\* that has taken an order, with orders added and given a status by the
\* back office
NextBulk ==
    \/ \E action \in BulkActions, medicine_ids \in BulkMedicineIds,
          order_ids \in BulkOrderIds, status \in BulkStatuses, new_stock \in BulkStocks,
          delete_criteria \in BulkCriteria :
         AdminBulkActions("POST", action, medicine_ids, order_ids, status, new_stock,
                          delete_criteria)
    \/ AdminBulkActions("GET", "", {}, {}, "", "", {})
    \/ \E p \in OrderPayloads : AdminOrderAdd("POST", p)
    \/ \E id \in OrderIds, st \in PostedStatuses : AdminOrderDetail(id, "POST", st)

SpecBulk == InitOrders /\ [][NextBulk]_vars

\* the storefront when another account, which is not logged in from this
\* browser, has a cart with one line in the store
OtherUsers == {"bina"}
OthersItem == [id |-> 1, cart |-> "bina", medicine |-> 1, quantity |-> 2]

InitShared ==
    /\ medicines = InitialMedicines
    /\ carts = OtherUsers
    /\ cartItems = { OthersItem }
    /\ session \in [Sessions -> {AnonymousSession} \cup {LoggedInSession(u) : u \in Users}]
    /\ orders = {}
    /\ orderItems = {}
    /\ nextId = [FirstIds EXCEPT !.CartItem = 2]
    /\ response = NoResponse
    /\ requests = [r \in Slots |-> Idle]
    /\ served = 0
    /\ addCalls = [s \in Sessions |-> [m \in MedIds |-> 0]]
    /\ InitOffice

SpecShared == InitShared /\ [][Next]_vars

\* a SocialSettingsForm bound to typed data, validated and, when valid,
\* saved into a database without a SiteSettings row
NextSocialForm ==
    \/ \E data \in SocialFormData, assume_scheme \in AssumedSchemes :
         SocialSettingsFormBound(data, assume_scheme)
    \/ SocialSettingsFormIsValid
    \/ \E follows \in BOOLEAN : SocialSettingsFormSave(follows)

SpecSocialForm == InitSettings /\ [][NextSocialForm]_vars

-----------------------------------------------------------------------------
(* Vocabulary of the properties: the cart of a session as the customer     *)
(* sees it, read from the store without the operators of the views         *)

\* the lines of the cart of session s: the CartItem rows of the user's cart,
\* or the session lines whose medicine exists; price is Medicine.price now
SourceLines(s) ==
    IF "_auth_user_id" \in DictKeys(session[s])
    THEN { [key |-> ci.id, medicine |-> ci.medicine, quantity |-> ci.quantity,
            price |-> medicines[ci.medicine].price]
           : ci \in { x \in cartItems : x.cart = DictGet(session[s], "_auth_user_id") } }
    ELSE IF "cart" \in DictKeys(session[s])
    THEN LET c == DictGet(session[s], "cart") IN
         { [key |-> i, medicine |-> PyInt(c[i].k), quantity |-> c[i].v.quantity,
            price |-> medicines[PyInt(c[i].k)].price]
           : i \in { j \in 1..Len(c) : PyInt(c[j].k) \in DOMAIN medicines } }
    ELSE {}

RECURSIVE SumOfLines(_)
SumOfLines(L) ==
    IF L = {} THEN 0
    ELSE LET l == CHOOSE x \in L : TRUE
         IN l.quantity * l.price + SumOfLines(L \ {l})

\* the step is a request of session s to the view op with this method
IsRequest(op, s, method) ==
    /\ served' = served + 1
    /\ response'.op = op /\ response'.actor = s /\ response'.method = method

-----------------------------------------------------------------------------
(* C1: a checkout POST on a non-empty cart creates exactly one Order, whose
   total_amount is the sum over the cart's lines of quantity x unit price,
   for the cart of a logged-in user and for a guest's session cart. *)
C1_CheckoutCreatesOneOrderWithTotal ==
    [][\A s \in Sessions :
         (IsRequest("checkout", s, "POST") /\ SourceLines(s) # {})
         => \E o \in orders' :
              /\ o \notin orders
              /\ orders' = orders \cup {o}
              /\ o.total_amount = SumOfLines(SourceLines(s))]_vars

\* a guest has ordered 2 x 90.00 and 1 x 50.00 and the order says 230.00
C1_Witness ==
    /\ response.op = "checkout" /\ response.status = "redirect:order_success"
    /\ \E o \in orders :
         /\ o.user = NoUser /\ o.total_amount = 23000
         /\ \E a, b \in orderItems :
              /\ a.order = o.id /\ a.quantity = 2 /\ a.price = 9000
              /\ b.order = o.id /\ b.quantity = 1 /\ b.price = 5000

(* C2: a checkout POST on a non-empty cart creates exactly one OrderItem per
   cart line, with that line's medicine and quantity and the medicine's
   price at that moment, and no other OrderItem. *)
C2_OneOrderItemPerLine ==
    [][\A s \in Sessions :
         (IsRequest("checkout", s, "POST") /\ SourceLines(s) # {})
         => \E o \in orders' \ orders :
              LET created == orderItems' \ orderItems IN
              /\ \A oi \in created : oi.order = o.id
              /\ orderItems \subseteq orderItems'
              /\ Cardinality(created) = Cardinality(SourceLines(s))
              /\ \A l \in SourceLines(s) :
                   Cardinality({ oi \in created :
                                   /\ oi.medicine = l.medicine
                                   /\ oi.quantity = l.quantity
                                   /\ oi.price = medicines[l.medicine].price })
                   = Cardinality({ k \in SourceLines(s) :
                                   k.medicine = l.medicine /\ k.quantity = l.quantity })]_vars

\* a logged-in user has ordered two lines and the order has their two items
C2_Witness ==
    /\ response.op = "checkout" /\ response.status = "redirect:order_success"
    /\ \E o \in orders :
         /\ o.user \in Users
         /\ { [medicine |-> oi.medicine, quantity |-> oi.quantity, price |-> oi.price]
              : oi \in { x \in orderItems : x.order = o.id } }
            = { [medicine |-> 1, quantity |-> 2, price |-> 9000],
                [medicine |-> 2, quantity |-> 1, price |-> 5000] }

(* C3: after a checkout POST that places an order the source cart is empty
   (no CartItem of the user's cart, or the empty session cart); a checkout
   GET leaves the cart unchanged. *)
C3_CheckoutEmptiesTheCart ==
    [][\A s \in Sessions :
         /\ (IsRequest("checkout", s, "POST") /\ SourceLines(s) # {})
            => IF "_auth_user_id" \in DictKeys(session[s])
               THEN /\ { x \in cartItems' : x.cart = DictGet(session[s], "_auth_user_id") } = {}
                    /\ { x \in cartItems' : x.cart # DictGet(session[s], "_auth_user_id") }
                       = { x \in cartItems : x.cart # DictGet(session[s], "_auth_user_id") }
               ELSE /\ "cart" \in DictKeys(session'[s])
                    /\ DictGet(session'[s], "cart") = << >>
         /\ IsRequest("checkout", s, "GET")
            => UNCHANGED <<carts, cartItems, session>>]_vars

\* a logged-in user with two lines has checked out: the order stands and the
\* Cart row is left without items
C3_Witness ==
    /\ response.op = "checkout" /\ response.status = "redirect:order_success"
    /\ \E s \in Sessions :
         /\ response.actor = s
         /\ "_auth_user_id" \in DictKeys(session[s])
         /\ DictGet(session[s], "_auth_user_id") \in carts
         /\ cartItems = {}
         /\ Cardinality(orderItems) = 2

(* C4: checkout, GET or POST, on an empty cart (no Cart, a Cart without
   items, no session cart, an empty one, or one whose ids all name medicines
   that no longer exist) creates no Order and no OrderItem and changes
   nothing in the store or the session. *)
C4_EmptyCartCheckoutChangesNothing ==
    [][\A s \in Sessions, method \in Methods :
         (IsRequest("checkout", s, method) /\ SourceLines(s) = {})
         => UNCHANGED <<medicines, carts, cartItems, session, orders, orderItems, nextId>>]_vars

\* a guest whose only line names a deleted medicine has posted a checkout
C4_Witness ==
    /\ response.op = "checkout" /\ response.method = "POST"
    /\ response.status = "redirect:cart_detail"
    /\ \E s \in Sessions :
         /\ response.actor = s
         /\ "cart" \in DictKeys(session[s])
         /\ Len(DictGet(session[s], "cart")) = 1
         /\ medicines # InitialMedicines
    /\ orders = {} /\ orderItems = {}

-----------------------------------------------------------------------------
\* the guest cart held in a session value, and its line for a key
CartDict(sess) == IF "cart" \in DictKeys(sess) THEN DictGet(sess, "cart") ELSE << >>
SameOtherLines(c, d, key) ==
    /\ DictKeys(c) \ {key} = DictKeys(d) \ {key}
    /\ \A k \in DictKeys(c) \ {key} : DictGet(c, k) = DictGet(d, k)
LoggedIn(s) == "_auth_user_id" \in DictKeys(session[s])
UserOf(s) == DictGet(session[s], "_auth_user_id")

(* C5: logged-in path: starting from a cart without a line for medicine M,
   after n >= 1 add_to_cart requests for M served one after another, with no
   update, remove or checkout in between, the cart has exactly one line for M
   and its quantity is n. *)
C5_AddsGiveQuantity ==
    \A s \in Sessions, m \in MedIds :
        (LoggedIn(s) /\ addCalls[s][m] >= 1)
        => LET lines == { x \in cartItems : x.cart = UserOf(s) /\ x.medicine = m }
           IN /\ Cardinality(lines) = 1
              /\ \A x \in lines : x.quantity = addCalls[s][m]

\* three add_to_cart requests of a logged-in user for medicine 1 were served
C5_Witness ==
    /\ response.op = "add_to_cart" /\ response.status = "redirect:cart_detail"
    /\ \E s \in Sessions :
         /\ LoggedIn(s) /\ addCalls[s][1] = 3
         /\ \E x \in cartItems : x.medicine = 1 /\ x.quantity = 3

(* C6: two add_to_cart requests of the same account for a medicine already
   in the cart at quantity q, handled at the same time, can both read q; when
   both have saved, the line holds q + 1 and not q + 2: one update is lost. *)
C6_ConcurrentAddsLoseAnUpdate ==
    \A r1, r2 \in Slots :
        ( /\ r1 # r2
          /\ requests[r1].pc = "saved" /\ requests[r2].pc = "saved"
          /\ requests[r1].id = requests[r2].id
          /\ requests[r1].quantity = requests[r2].quantity )
        => \E x \in cartItems :
             /\ x.id = requests[r1].id
             /\ x.quantity = requests[r1].quantity + 1

\* both requests read quantity 1 of the same row and both have saved
C6_Witness ==
    \E r1, r2 \in Slots :
        /\ r1 # r2
        /\ requests[r1].pc = "saved" /\ requests[r2].pc = "saved"
        /\ requests[r1].id = requests[r2].id
        /\ requests[r1].quantity = 1 /\ requests[r2].quantity = 1
        /\ \E x \in cartItems : x.id = requests[r1].id /\ x.quantity = 2

(* C7: a POST to update_cart_item with quantity q sets the targeted line's
   quantity to q when q > 0 and deletes the line when q <= 0, for a logged-in
   user and for a guest; every other line stays as it is, and a request that
   is not a POST changes nothing. *)
C7_UpdateSetsOrDeletes ==
    [][\A s \in Sessions, id \in ItemIds, q \in PostedQuantities :
         /\ (IsRequest("update_cart_item", s, "POST") /\ UpdateCartItem(s, "POST", id, q))
            => IF LoggedIn(s)
               THEN LET target == { x \in cartItems : x.id = id /\ x.cart = UserOf(s) }
                    IN /\ cartItems' \ target' = cartItems \ target
                       /\ target' = IF q > 0
                                    THEN { [t EXCEPT !.quantity = q] : t \in target }
                                    ELSE {}
                       /\ session' = session
               ELSE LET c == CartDict(session[s])
                        d == CartDict(session'[s])
                        key == ToString(id)
                    IN /\ SameOtherLines(c, d, key)
                       /\ key \in DictKeys(c)
                          => IF q > 0
                             THEN /\ key \in DictKeys(d)
                                  /\ DictGet(d, key) = [DictGet(c, key) EXCEPT !.quantity = q]
                             ELSE key \notin DictKeys(d)
                       /\ key \notin DictKeys(c) => session' = session
                       /\ cartItems' = cartItems
         /\ IsRequest("update_cart_item", s, "GET")
            => UNCHANGED <<medicines, carts, cartItems, session, orders, orderItems, nextId>>]_vars

\* a guest added medicines 1 and 2 and then posted quantity 2 for line 1
C7_Witness ==
    /\ response.op = "update_cart_item" /\ response.method = "POST"
    /\ served = 3
    /\ \E s \in Sessions :
         /\ ~LoggedIn(s)
         /\ DictKeys(CartDict(session[s])) = {"1", "2"}
         /\ DictGet(CartDict(session[s]), "1").quantity = 2
         /\ DictGet(CartDict(session[s]), "2").quantity = 1

(* C8: remove_from_cart deletes the targeted line whatever its quantity and
   leaves every other line as it is; when the line is not in the actor's cart
   the cart is left unchanged, for a logged-in user and for a guest. *)
C8_RemoveDeletesOnlyTheLine ==
    [][\A s \in Sessions, id \in ItemIds :
         (IsRequest("remove_from_cart", s, "GET") /\ RemoveFromCart(s, id))
         => IF LoggedIn(s)
            THEN /\ cartItems' = cartItems \ { x \in cartItems : x.id = id /\ x.cart = UserOf(s) }
                 /\ session' = session
            ELSE LET c == CartDict(session[s])
                     d == CartDict(session'[s])
                     key == ToString(id)
                 IN /\ SameOtherLines(c, d, key)
                    /\ key \notin DictKeys(d)
                    /\ key \notin DictKeys(c) => session' = session
                    /\ cartItems' = cartItems]_vars

\* a logged-in user added medicine 1 twice and medicine 2 once and removed
\* the line of medicine 1: the line of medicine 2 is all that is left
C8_Witness ==
    /\ response.op = "remove_from_cart" /\ response.status = "redirect:cart_detail"
    /\ served = 4
    /\ nextId.CartItem = 3
    /\ \E s \in Sessions :
         /\ LoggedIn(s)
         /\ cartItems = { [id |-> 2, cart |-> UserOf(s), medicine |-> 2, quantity |-> 1] }

\* the sum over the session lines whose medicine exists of quantity x the
\* price string kept in the line
SnapshotSum(s) ==
    LET c == CartDict(session[s]) IN
    SumOfLines({ [key |-> i, quantity |-> c[i].v.quantity, price |-> DecimalOf(c[i].v.price)]
                 : i \in { j \in 1..Len(c) : PyInt(c[j].k) \in DOMAIN medicines } })

(* C9 as stated: the total of a guest's cart page and the total_amount of a
   guest's order are computed from the price kept in the session line when
   the medicine was added, while a logged-in cart uses the current
   Medicine.price. *)
C9_GuestTotalsUseSnapshot ==
    [][\A s \in Sessions :
         LET claimed == IF LoggedIn(s) THEN SumOfLines(SourceLines(s)) ELSE SnapshotSum(s)
         IN /\ IsRequest("cart_detail", s, "GET") => response'.total = claimed
            /\ (IsRequest("checkout", s, "POST") /\ SourceLines(s) # {})
               => \E o \in orders' \ orders : o.total_amount = claimed]_vars

(* C9 amended: the total of the cart page and the total_amount of the order
   are computed from the current Medicine.price, for a guest's session cart
   as for a logged-in cart; the price kept in the session line is not used,
   so after a change of Medicine.price the guest's totals follow the new
   price. *)
C9_TotalsUseCurrentPrice ==
    [][\A s \in Sessions :
         /\ IsRequest("cart_detail", s, "GET")
            => response'.total = SumOfLines(SourceLines(s))
         /\ (IsRequest("checkout", s, "POST") /\ SourceLines(s) # {})
            => \E o \in orders' \ orders : o.total_amount = SumOfLines(SourceLines(s))]_vars

\* a guest added medicine 1 at 90.00, the price became 50.00, and the cart
\* page shows 50.00
C9_Witness ==
    /\ response.op = "cart_detail" /\ response.total = 5000
    /\ \E s \in Sessions :
         /\ response.actor = s /\ ~LoggedIn(s)
         /\ DictKeys(CartDict(session[s])) = {"1"}
         /\ DictGet(CartDict(session[s]), "1").price = "90.00"
         /\ DictGet(CartDict(session[s]), "1").quantity = 1
         /\ 1 \in DOMAIN medicines /\ medicines[1].price = 5000

(* C10: guest path: add_to_cart for a medicine not in the session cart
   inserts a line with quantity 1 and the medicine's name, price and image
   url; add_to_cart for a medicine already in the session cart adds 1 to the
   line's quantity and leaves its name, price and image as they were taken at
   the first add, whatever the Medicine is now. *)
C10_GuestAddSnapshotsOnce ==
    [][\A s \in Sessions, m \in MedIds :
         ( /\ IsRequest("add_to_cart", s, "GET")
           /\ ~LoggedIn(s) /\ m \in DOMAIN medicines /\ medicines[m].is_active
           /\ AddToCart(s, m) )
         => LET c == CartDict(session[s])
                d == CartDict(session'[s])
                key == ToString(m)
            IN /\ SameOtherLines(c, d, key)
               /\ key \in DictKeys(d)
               /\ DictGet(d, key) =
                    IF key \in DictKeys(c)
                    THEN [DictGet(c, key) EXCEPT !.quantity = @ + 1]
                    ELSE [quantity |-> 1, name |-> medicines[m].name,
                          price |-> DecimalStr(medicines[m].price),
                          image |-> medicines[m].image]]_vars

\* a guest added medicine 1, the medicine got a new name, price and image,
\* and the guest added it again: quantity 2 with the first snapshot
C10_Witness ==
    /\ response.op = "add_to_cart" /\ response.status = "redirect:cart_detail"
    /\ \E s \in Sessions :
         /\ ~LoggedIn(s) /\ addCalls[s][1] = 2
         /\ DictGet(CartDict(session[s]), "1")
            = [quantity |-> 2, name |-> "Paracetamol 500mg", price |-> "90.00", image |-> ""]
         /\ medicines[1] = [name |-> "Generic 500mg", category |-> 1, price |-> 5000,
                            stock_quantity |-> 40,
                            manufacturer |-> Some(<<"G", "S", "K">>),
                            image |-> "/media/medicines/generic.jpg", is_active |-> TRUE]

-----------------------------------------------------------------------------
(* C16: in every reachable state the status of every Order is one of
   PENDING, CONFIRMED, SHIPPED, DELIVERED, CANCELLED, whatever status strings
   checkout, admin_order_detail, admin_order_add and admin_order_edit are
   sent. *)
C16_StatusIsAChoice ==
    \A o \in orders :
        o.status \in {"PENDING", "CONFIRMED", "SHIPPED", "DELIVERED", "CANCELLED"}

\* the step is a request to one of the views a customer uses
CustomerViews ==
    {"add_to_cart", "update_cart_item", "remove_from_cart", "checkout", "track_order",
     "order_detail", "order_history"}
IsCustomerRequest == served' = served + 1 /\ response'.op \in CustomerViews

(* C17: every Order created by checkout starts with status PENDING, and no
   customer request (a cart change, a further checkout, order tracking, the
   order detail and history pages) changes the status of any Order: it stays
   as it is until a back-office request sets another. *)
C17_CheckoutOrdersStartPending ==
    [][/\ \A s \in Sessions :
            IsRequest("checkout", s, "POST")
            => \A o \in orders' \ orders : o.status = "PENDING"
       /\ IsCustomerRequest
          => \A o \in orders :
               \E n \in orders' : n.id = o.id /\ n.status = o.status]_vars

\* the back office set order 1 to DELIVERED; the customer then added a
\* medicine and checked out: order 1 is still DELIVERED, the new one PENDING
C17_Witness ==
    /\ response.op = "checkout" /\ response.status = "redirect:order_success"
    /\ \E o \in orders : o.id = 1 /\ o.status = "DELIVERED"
    /\ \E o \in orders : o.id = 2 /\ o.status = "PENDING"

-----------------------------------------------------------------------------
\* the phone numbers the tracking form can post, with the number each stands for
SubmittedPhones ==
    { <<"9810000001", "9810000001">>, <<" 9810000002 ", "9810000002">> }
\* the order ids the tracking form can post, with the id each stands for
\* (0: not an integer)
SubmittedOrderIds == { <<"1", 1>>, <<" 2", 2>>, <<"abc", 0>> }

(* C11: a track_order POST with a phone number and no order id returns
   exactly the Orders whose phone_number is the submitted phone, guest orders
   and account orders alike, newest first; when no Order has that phone it
   returns no orders and an error. *)
C11_TrackByPhone ==
    [][\A s \in Sessions, ph \in SubmittedPhones :
         (IsRequest("track_order", s, "POST") /\ TrackOrder(s, "POST", "", ph[1]))
         => LET matching == { o \in orders : o.phone_number = ph[2] }
                got == IF response'.orders = << >> THEN << >> ELSE response'.orders[1]
            IN /\ response'.orders # << >>
               /\ { got[i] : i \in 1..Len(got) } = matching
               /\ Len(got) = Cardinality(matching)
               /\ \A i, j \in 1..Len(got) :
                    i < j => got[i].created_at > got[j].created_at
               /\ response'.order = << >>
               /\ (matching = {}) <=> (response'.error # << >>)]_vars

\* tracking by the phone of orders 1 and 2 returned order 2, then order 1,
\* and not order 3 placed under another phone
C11_Witness ==
    /\ response.op = "track_order" /\ response.method = "POST"
    /\ response.orders # << >>
    /\ LET got == response.orders[1]
       IN /\ Len(got) = 2
          /\ got[1].id = 2 /\ got[2].id = 1
          /\ got[1].user # got[2].user
          /\ \E o \in orders : o.id = 3 /\ o.phone_number # got[1].phone_number

(* C12: a track_order POST with a phone number and an order id returns the
   one Order that has that id and that phone_number; when the pair does not
   match (unknown id, the id of an order with another phone, an id that is
   not an integer) it returns no order and a not-found error; a POST with an
   order id and no phone returns no order. *)
C12_TrackByIdAndPhone ==
    [][\A s \in Sessions, id \in SubmittedOrderIds :
         /\ \A ph \in SubmittedPhones :
              (IsRequest("track_order", s, "POST") /\ TrackOrder(s, "POST", id[1], ph[1]))
              => LET matching == { o \in orders : o.id = id[2] /\ o.phone_number = ph[2] }
                 IN /\ response'.orders = << >>
                    /\ IF matching # {}
                       THEN /\ Cardinality(matching) = 1
                            /\ response'.order # << >>
                            /\ response'.order[1] \in matching
                            /\ response'.error = << >>
                       ELSE /\ response'.order = << >>
                            /\ response'.error =
                                 <<"Order not found. Please check your Order ID and Phone Number.">>
         /\ (IsRequest("track_order", s, "POST") /\ TrackOrder(s, "POST", id[1], ""))
            => /\ response'.order = << >>
               /\ response'.orders = << >>
               /\ response'.error # << >>]_vars

\* orders 1 and 2 have the same phone; tracking by that phone and id 2
\* returned order 2
C12_Witness ==
    /\ response.op = "track_order" /\ response.method = "POST"
    /\ response.order # << >>
    /\ response.order[1].id = 2
    /\ response.order[1] \in orders
    /\ \E o \in orders : o.id = 1 /\ o.phone_number = response.order[1].phone_number
    /\ \E o \in orders : o.phone_number # response.order[1].phone_number

-----------------------------------------------------------------------------
\* the step is a request to one of the views that change a cart, place an
\* order or track one
IsShoppingRequest ==
    /\ served' = served + 1
    /\ response'.op \in {"add_to_cart", "update_cart_item", "remove_from_cart",
                         "checkout", "track_order"}

(* C14: no request to add_to_cart, update_cart_item, remove_from_cart,
   checkout or track_order changes the stock_quantity of any Medicine; after
   a checkout that orders quantity q of medicine M, the stock_quantity of M
   is what it was before. *)
C14_CustomersLeaveStock ==
    [][IsShoppingRequest
       => /\ DOMAIN medicines' = DOMAIN medicines
          /\ \A m \in DOMAIN medicines :
               medicines'[m].stock_quantity = medicines[m].stock_quantity]_vars

\* a checkout ordered 2 of medicine 1, whose stock is still the 10 it had
C14_Witness ==
    /\ response.op = "checkout" /\ response.status = "redirect:order_success"
    /\ \E oi \in orderItems : oi.order = 2 /\ oi.medicine = 1 /\ oi.quantity = 2
    /\ 1 \in DOMAIN medicines /\ medicines[1].stock_quantity = 10

-----------------------------------------------------------------------------
\* the OrderItem rows of an order in a table of rows
ItemsOfOrder(rows, order_id) == { oi \in rows : oi.order = order_id }
\* the order has the same user, amount, address and phone in both rows
SameOrderHead(o, n) ==
    /\ n.user = o.user /\ n.total_amount = o.total_amount
    /\ n.shipping_address = o.shipping_address /\ n.phone_number = o.phone_number

(* C15 as stated: once an Order exists, no customer or back-office request
   changes its total_amount, shipping_address, phone_number or user, and
   neither a change of Medicine.price nor a cart request changes the
   medicine, quantity or price of its OrderItems. *)
C15_OrdersChangeOnlyInStatus ==
    [][\A o \in orders, n \in orders' :
         (served' = served + 1 /\ n.id = o.id)
         => /\ SameOrderHead(o, n)
            /\ response'.op \in {"admin_medicine_edit", "add_to_cart", "update_cart_item",
                                 "remove_from_cart", "checkout"}
               => ItemsOfOrder(orderItems', o.id) = ItemsOfOrder(orderItems, o.id)]_vars

(* C15 amended: once an Order exists, no customer request changes it or its
   OrderItems, and a change of Medicine.price changes neither; admin_order_detail
   changes nothing but its status; an accepted admin_order_edit POST replaces
   its user, status, phone_number, total_amount and shipping_address by the
   submitted values and replaces its OrderItems; deleting a Medicine removes
   the OrderItems of that medicine and changes no other. *)
C15_OrdersChangeInBackOfficeOnly ==
    [][\A o \in orders, n \in orders' :
         (served' = served + 1 /\ n.id = o.id)
         => /\ response'.op # "admin_order_edit" => SameOrderHead(o, n)
            /\ response'.op \notin {"admin_order_edit", "admin_order_detail"} => n = o
            /\ response'.op \notin {"admin_order_edit", "admin_medicine_delete"}
               => ItemsOfOrder(orderItems', o.id) = ItemsOfOrder(orderItems, o.id)
            /\ response'.op = "admin_medicine_delete"
               => ItemsOfOrder(orderItems', o.id)
                    = { oi \in ItemsOfOrder(orderItems, o.id) : oi.medicine \in DOMAIN medicines' }
            /\ \A p \in OrderPayloads :
                 ( /\ response'.op = "admin_order_edit" /\ response'.method = "POST"
                   /\ o.id \in OrderIds
                   /\ p.user # "" /\ AdminOrderEdit(o.id, "POST", p) )
                 => /\ n.user = p.user /\ n.status = p.status
                    /\ n.phone_number = p.phone_number
                    /\ n.shipping_address = p.shipping_address
                    /\ DecimalStr(n.total_amount) = p.total_amount
                    /\ n.created_at = o.created_at
                    /\ ItemsOfOrder(orderItems', o.id) \cap ItemsOfOrder(orderItems, o.id) = {}]_vars

\* the back office edited the guest's order 1: it now belongs to an account,
\* has another phone, amount, address and status, and a new OrderItem
C15_Witness ==
    /\ response.op = "admin_order_edit" /\ response.status = "redirect:admin_order_detail"
    /\ \E o \in orders :
         /\ o.id = 1 /\ o.user = "asha" /\ o.phone_number = "9810000002"
         /\ o.total_amount = 5000 /\ o.shipping_address = "7 Park St"
         /\ o.status = "SHIPPED"
    /\ \A s \in Sessions : ~LoggedIn(s)
    /\ ItemsOfOrder(orderItems, 1)
         = { [id |-> 2, order |-> 1, medicine |-> 2, quantity |-> 1, price |-> 5000] }

-----------------------------------------------------------------------------
(* C18: in every reachable state every cart line has quantity >= 1, the
   CartItem rows and the lines of a guest's session cart, after any sequence
   of add_to_cart, update_cart_item (with any quantity, 0 and negatives
   included), remove_from_cart and checkout requests. *)
C18_QuantitiesArePositive ==
    /\ \A ci \in cartItems : ci.quantity >= 1
    /\ \A s \in Sessions :
         LET c == CartDict(session[s])
         IN \A i \in 1..Len(c) : c[i].v.quantity >= 1

\* a guest added a medicine and posted a quantity of 0 or less for its line:
\* the session cart is there and has no line
C18_Witness ==
    /\ response.op = "update_cart_item" /\ response.method = "POST"
    /\ served = 2
    /\ \E s \in Sessions :
         /\ response.actor = s
         /\ "cart" \in DictKeys(session[s])
         /\ CartDict(session[s]) = << >>

(* C20: when a guest's session cart holds ids of medicines that no longer
   exist, cart_detail and checkout build their lines and total from the
   medicines that exist and skip the others without an error: the page is
   rendered, or the order placed, with the sum over the lines whose medicine
   exists. *)
C20_StaleGuestLinesAreSkipped ==
    [][\A s \in Sessions :
         LET c == CartDict(session[s])
             alive == { i \in 1..Len(c) : PyInt(c[i].k) \in DOMAIN medicines }
             sum == SumOfLines({ [key |-> i, quantity |-> c[i].v.quantity,
                                  price |-> medicines[PyInt(c[i].k)].price] : i \in alive })
         IN (~LoggedIn(s) /\ Cardinality(alive) < Len(c))
            => /\ IsRequest("cart_detail", s, "GET")
                  => /\ response'.status = "render:cart_detail"
                     /\ response'.total = sum
               /\ (IsRequest("checkout", s, "GET") /\ alive # {})
                  => /\ response'.status = "render:checkout"
                     /\ response'.total = sum
               /\ (IsRequest("checkout", s, "POST") /\ alive # {})
                  => /\ response'.status = "redirect:order_success"
                     /\ \E o \in orders' \ orders :
                          /\ o.total_amount = sum
                          /\ Cardinality(ItemsOfOrder(orderItems', o.id)) = Cardinality(alive)
                          /\ \A oi \in ItemsOfOrder(orderItems', o.id) :
                               oi.medicine \in DOMAIN medicines]_vars

\* a guest has medicines 1 and 2 in the cart, medicine 1 was deleted, and the
\* cart page shows the 50.00 of medicine 2
C20_Witness ==
    /\ response.op = "cart_detail" /\ response.status = "render:cart_detail"
    /\ response.total = 5000
    /\ \E s \in Sessions :
         /\ response.actor = s /\ ~LoggedIn(s)
         /\ DictKeys(CartDict(session[s])) = {"1", "2"}
    /\ DOMAIN medicines = {2} /\ medicines[2].price = 5000

-----------------------------------------------------------------------------
(* C19: the get-or-create of add_to_cart keeps the rows unique: in every
   reachable state there is at most one CartItem for a cart and a medicine
   (and one Cart for a user, which the one-to-one field of Cart.user
   enforces), also when the lookup and insert steps of two add_to_cart
   requests of the same user for the same medicine interleave. *)
C19_OneCartItemPerMedicine ==
    \A a, b \in cartItems :
        (a.cart = b.cart /\ a.medicine = b.medicine) => a.id = b.id

-----------------------------------------------------------------------------
\* what the OrderItems of an order say, without their ids
LinesOfOrder(rows, order_id) ==
    { [medicine |-> oi.medicine, quantity |-> oi.quantity, price |-> oi.price]
      : oi \in ItemsOfOrder(rows, order_id) }

(* C13: when checkout fails after the Order row is created and before the
   cart is cleared, nothing is rolled back: the Order and the OrderItems
   written so far stay in the store and no statement of the request up to
   the failure has touched the cart, so the checkout POST sent again on the
   cart's lines creates one more Order. *)
C13_FailedCheckoutKeepsOrderAndCart ==
    [][\A r \in Slots :
         LET q == requests[r] IN
         /\ (q.pc = "looping" /\ requests'[r].pc = "failed")
            => /\ \E o \in orders' : o.id = q.id /\ o.total_amount = q.total
               /\ ItemsOfOrder(orderItems', q.id) = ItemsOfOrder(orderItems, q.id)
               /\ orders' = orders /\ orderItems' = orderItems
         /\ ( /\ q.pc \in {"resolved", "looping"} /\ requests'[r] # q
              /\ requests'[r].pc \in {"looping", "failed"} )
            => cartItems' = cartItems /\ session' = session
         /\ \A s \in Sessions :
              ( /\ q.pc = "idle" /\ requests'[r].pc # "idle"
                /\ requests'[r].session = s /\ requests'[r].method = "POST"
                /\ SourceLines(s) # {} )
              => requests'[r].pc = "resolved"
         /\ (q.pc = "resolved" /\ requests'[r].pc # "resolved")
            => /\ orders \subseteq orders'
               /\ Cardinality(orders' \ orders) = 1
               /\ \A o \in orders' \ orders : o.total_amount = q.total]_vars

\* three requests were served: an add_to_cart, a checkout POST that failed
\* after it had written the Order and its OrderItem, and the checkout POST
\* sent again: the store holds two Orders for the same line
C13_Witness ==
    /\ served = 3
    /\ response.op = "checkout" /\ response.status = "redirect:order_success"
    /\ \A r \in Slots : requests[r].pc = "idle"
    /\ \E a, b \in orders :
         /\ a.id = 1 /\ b.id = 2
         /\ a.user = b.user /\ a.total_amount = b.total_amount
         /\ LinesOfOrder(orderItems, 1) # {}
         /\ LinesOfOrder(orderItems, 1) = LinesOfOrder(orderItems, 2)
    /\ \A s \in Sessions : SourceLines(s) = {}

(* C21: in every reachable state at most one SiteSettings row exists,
   whatever the order of creations through save(), calls of get_settings()
   and deletions *)
C21_OneSiteSettings == Cardinality(siteSettings) <= 1

\* a text of blanks only, and a text without the blanks at its two ends
BlankChars == {" ", "\t", "\n", "\r", "\f"}
IsBlank(t) == \A i \in 1..Len(t) : t[i] \in BlankChars
Trimmed(t) ==
    LET inked == { i \in 1..Len(t) : t[i] \notin BlankChars }
        first == CHOOSE i \in inked : \A j \in inked : i <= j
        last == CHOOSE i \in inked : \A j \in inked : j <= i
    IN IF inked = {} THEN << >> ELSE SubSeq(t, first, last)

(* C22: a POST of the medicine form for a new medicine with otherwise valid
   data saves one new medicine; its manufacturer is None when the submitted
   manufacturer is empty or only whitespace, and otherwise the submitted
   text without its leading and trailing whitespace *)
C22_ManufacturerIsNormalized ==
    [][\A p \in AddPayloads :
         ( /\ response'.op = "admin_medicine_add" /\ served' = served + 1
           /\ Saveable(p)
           /\ AdminMedicineAdd(p) )
         => LET id == nextId.Medicine IN
            /\ DOMAIN medicines' = DOMAIN medicines \cup {id}
            /\ id \notin DOMAIN medicines
            /\ \A m \in DOMAIN medicines : medicines'[m] = medicines[m]
            /\ medicines'[id].name = p.name
            /\ IF IsBlank(p.manufacturer)
               THEN medicines'[id].manufacturer = PyNone
               ELSE medicines'[id].manufacturer = Some(Trimmed(p.manufacturer))]_vars

\* medicine 3 was added with a manufacturer of whitespace only, medicine 4
\* with a manufacturer between whitespace
C22_Witness ==
    /\ response.op = "admin_medicine_add"
    /\ response.status = "redirect:admin_medicines"
    /\ DOMAIN medicines = {1, 2, 3, 4}
    /\ medicines[3].manufacturer = PyNone
    /\ medicines[4].manufacturer = Some(<<"S", "u", "n", " ", "P", "h", "a", "r", "m", "a">>)

(* C29: no request to the category page (delete, delete_empty, bulk_delete
   or any other of its actions) deletes a Category that a Medicine belongs
   to: after the request every Medicine is still there, unchanged, and in
   every state every Medicine references a Category that exists *)
C29_CategoryActionsKeepMedicines ==
    [][/\ (response'.op = "admin_categories" /\ served' = served + 1)
          => /\ \A m \in DOMAIN medicines :
                  m \in DOMAIN medicines' /\ medicines'[m] = medicines[m]
             /\ \A c \in DOMAIN categories :
                  (\E m \in DOMAIN medicines : medicines[m].category = c)
                  => c \in DOMAIN categories'
       /\ \A m \in DOMAIN medicines' : medicines'[m].category \in DOMAIN categories']_vars

\* the empty category 3 was deleted, alone, by a request that also named
\* category 1, which has a medicine
C29_Witness ==
    /\ response.op = "admin_categories" /\ response.status = "bulk deleted"
    /\ DOMAIN categories = {1, 2}
    /\ \E m \in DOMAIN medicines : medicines[m].category = 1

(* C30: in every reachable state a CustomerFeedback that is featured is also
   approved, from its submission on and through the approve, unapprove,
   feature and unfeature actions of the feedback page and the approve,
   unapprove and mark-as-featured actions of the Django admin *)
C30_FeaturedIsApproved == \A f \in feedbacks : f.is_featured => f.is_approved

(* C25: a POST to admin_bulk_actions with action bulk_status_update, a
   non-empty list of order ids and one of the five statuses sets the status
   of every selected Order to that status; with an invalid status or no
   selected orders no Order is changed *)
C25_BulkStatusUpdate ==
    [][\A medicine_ids \in BulkMedicineIds, order_ids \in BulkOrderIds,
          status \in BulkStatuses :
         ( /\ response'.op = "admin_bulk_actions" /\ response'.method = "POST"
           /\ served' = served + 1
           /\ AdminBulkActions("POST", "bulk_status_update", medicine_ids, order_ids,
                               status, "", {}) )
         => IF order_ids # {} /\ status \in {"PENDING", "CONFIRMED", "SHIPPED",
                                            "DELIVERED", "CANCELLED"}
            THEN /\ \A o \in orders' : o.id \in order_ids => o.status = status
                 /\ { o.id : o \in orders' } = { o.id : o \in orders }
            ELSE orders' = orders]_vars

(* C26: every Order that a POST to admin_order_add or admin_order_edit
   creates or rewrites has at least one OrderItem afterwards: a submission
   without a complete item, or one that fails part-way, leaves no order
   without items and no partially built order *)
C26_BackOfficeOrdersHaveItems ==
    [][( /\ response'.op \in {"admin_order_add", "admin_order_edit"}
         /\ response'.method = "POST"
         /\ served' = served + 1 )
       => \A o \in orders' :
            ( \/ o \notin orders
              \/ ItemsOfOrder(orderItems', o.id) # ItemsOfOrder(orderItems, o.id) )
            => /\ ItemsOfOrder(orderItems', o.id) # {}
               /\ response'.status = "redirect:admin_order_detail"]_vars

(* C27: for every Order that a checkout of a logged-in user has created,
   while no medicine was deleted, total_amount is the sum of quantity x
   price over the Order's OrderItems when the checkout has written them
   all, also when add_to_cart requests of the same user run between the
   statements of the checkout *)
C27_TotalIsSumOfItems ==
    [][\A r \in CheckoutSlots :
         ( /\ requests[r].pc = "looping" /\ requests'[r].pc = "cleared"
           /\ requests[r].user # NoUser
           /\ DOMAIN medicines = MedIds )
         => \A o \in orders :
              o.id = requests[r].id
              => o.total_amount = SumOfLines(ItemsOfOrder(orderItems, o.id))]_vars

\* the CartItem rows of the carts of other accounts than the one session s
\* is logged in to (every cart, for a guest)
CartsOfOthers(rows, s) ==
    { ci \in rows : ~LoggedIn(s) \/ ci.cart # UserOf(s) }

(* C28: a request to update_cart_item or remove_from_cart of a logged-in
   user, for any item id, changes no CartItem of another user's cart, and
   such a request of a guest changes no persisted cart at all and no other
   browser's session *)
C28_CartRequestsStayInOwnCart ==
    [][\A s \in Sessions :
         ( /\ response'.op \in {"update_cart_item", "remove_from_cart"}
           /\ response'.actor = s
           /\ served' = served + 1 )
         => /\ CartsOfOthers(cartItems', s) = CartsOfOthers(cartItems, s)
            /\ carts' = carts
            /\ ~LoggedIn(s) => UNCHANGED cartItems
            /\ \A t \in Sessions \ {s} : session'[t] = session[t]]_vars

\* asha, who has a line of her own, named the line of bina's cart in an
\* update and was answered 404
C28_Witness ==
    /\ response.op = "update_cart_item" /\ response.method = "POST"
    /\ response.status = "404"
    /\ OthersItem \in cartItems
    /\ \E s \in Sessions : LoggedIn(s) /\ \E ci \in cartItems : ci.cart = UserOf(s)

\* the protocol typed in front of a URL (in lower case, empty when none was
\* typed), the URL behind it, and the URL a typed text stands for
TypedProtocol(typed) ==
    LET marks == Occurrences(typed, <<":", "/", "/">>)
        i == First(marks)
    IN  IF marks # {} /\ i > 1 /\ \A k \in 1..(i - 1) : typed[k] \in Letters
        THEN Lower(SubSeq(typed, 1, i - 1)) ELSE << >>
BehindProtocol(typed) ==
    SubSeq(typed, First(Occurrences(typed, <<":", "/", "/">>)) + 3, Len(typed))
Malformed(typed) ==
    ~UrlIsValid(IF TypedProtocol(typed) = << >> THEN <<"h", "t", "t", "p", "s", ":", "/", "/">> \o typed ELSE typed)

(* C23: once the form is validated, a social URL field that was accepted with
   a non-empty cleaned value has a value that starts with https:// and
   contains the platform's domain (in any case of letters): https:// in front
   of what was typed when no protocol was typed, https:// in place of a typed
   http://; and a non-blank input that is malformed or lacks the platform's
   domain has an error on its field *)
C23_SocialUrlIsNormalized ==
    form.state \in {"cleaned", "saved"} =>
      \A field \in SocialUrlFields :
        LET typed == Trimmed(form.data[field]) IN
        /\ (field \notin form.errors /\ form.cleaned_data[field] # PyNone) =>
             LET url == form.cleaned_data[field][1] IN
             /\ StartsWith(url, <<"h", "t", "t", "p", "s", ":", "/", "/">>)
             /\ Contains(Lower(url), ExpectedDomain[field])
             /\ TypedProtocol(typed) = << >> => url = <<"h", "t", "t", "p", "s", ":", "/", "/">> \o typed
             /\ TypedProtocol(typed) = <<"h", "t", "t", "p">> => url = <<"h", "t", "t", "p", "s", ":", "/", "/">> \o BehindProtocol(typed)
        /\ ( /\ ~IsBlank(form.data[field])
             /\ Malformed(typed) \/ ~Contains(Lower(typed), ExpectedDomain[field]) )
           => field \in form.errors

\* a form was accepted with an http:// Facebook URL and an Instagram URL
\* typed without a protocol
C23_Witness ==
    /\ form.state = "cleaned"
    /\ form.errors = {}
    /\ form.data.facebook_url = <<"h", "t", "t", "p", ":", "/", "/", "f", "a", "c", "e", "b", "o", "o", "k", ".", "c", "o", "m", "/", "m", "e", "d", "s", "h", "o", "p">>
    /\ form.cleaned_data.facebook_url = Some(<<"h", "t", "t", "p", "s", ":", "/", "/", "f", "a", "c", "e", "b", "o", "o", "k", ".", "c", "o", "m", "/", "m", "e", "d", "s", "h", "o", "p">>)
    /\ form.data.instagram_url = <<"i", "n", "s", "t", "a", "g", "r", "a", "m", ".", "c", "o", "m", "/", "m", "e", "d", "s", "h", "o", "p">>
    /\ form.cleaned_data.instagram_url = Some(<<"h", "t", "t", "p", "s", ":", "/", "/", "i", "n", "s", "t", "a", "g", "r", "a", "m", ".", "c", "o", "m", "/", "m", "e", "d", "s", "h", "o", "p">>)

\* the characters of a text that are digits or '+', and the shape of a number
DigitsAndPlus(t) == SelectSeq(t, LAMBDA c : c \in Digits \cup {"+"})
PlusAndDigits(t) ==
    /\ Len(t) >= 1
    /\ t[1] = "+"
    /\ (Len(t) - 1) \in 10..15
    /\ \A k \in 2..Len(t) : t[k] \in Digits

(* C24: once the form is validated, a non-blank whatsapp_number that was
   accepted has as its cleaned value what was typed without the characters
   that are neither digits nor '+', and that value is '+' followed by 10 to
   15 digits; a non-blank input whose digits and '+' are not of that shape
   has an error on the field *)
C24_WhatsappNumberIsCleaned ==
    form.state \in {"cleaned", "saved"} =>
      LET typed == form.data.whatsapp_number IN
      ~IsBlank(typed) =>
        /\ "whatsapp_number" \notin form.errors =>
             /\ form.cleaned_data.whatsapp_number = Some(DigitsAndPlus(typed))
             /\ PlusAndDigits(DigitsAndPlus(typed))
        /\ ~PlusAndDigits(DigitsAndPlus(typed)) => "whatsapp_number" \in form.errors

\* a number typed with blanks, hyphens and brackets was accepted
C24_Witness ==
    /\ form.state = "cleaned"
    /\ form.data.whatsapp_number = <<" ", "+", "9", "1", "-", "(", "9", "8", "1", "0", "0", ")", "-", "0", "0", "0", "0", "1", " ">>
    /\ "whatsapp_number" \notin form.errors
    /\ form.cleaned_data.whatsapp_number = Some(<<"+", "9", "1", "9", "8", "1", "0", "0", "0", "0", "0", "0", "1">>)

====
